---- MODULE Spec2Model ----
(***************************************************************************)
(* A model of the driver-extraction pipeline of bare-metal-forth           *)
(* (tools/translator): the PE loader, the x86 decoder and the UIR lifter.  *)
(*                                                                         *)
(* 32-bit unsigned values are pairs <<hi16, lo16>> so that uint32_t        *)
(* arithmetic keeps its width (TLC integers are 32-bit signed).  size_t is *)
(* taken to be 64 bits wide (LP64), input slices are shorter than 2^31.    *)
(***************************************************************************)
EXTENDS Integers, Sequences, FiniteSets, TLC

VARIABLES
    data,        \* pe_load: the input byte slice (data, size = Len(data))
    pad,         \* the byte that lies in memory after the slice or buffer
    calloc0Null, \* whether calloc(0, n) returns NULL on this platform
    oomAt,       \* which allocation of pe_load fails ("none" when none does)
    pePc,        \* "off" | "start" | "loaded" | "queried" | "cleaned"
    ctx,         \* pe_context_t
    rc,          \* return value of pe_load
    rvaQ,        \* last rva given to pe_rva_to_ptr
    ptrQ,        \* its result: a file offset, or NULL
    decCode,     \* x86_decoder_t: code (code_size = Len(decCode))
    decBase,     \* x86_decoder_t: base_address
    decOffset,   \* x86_decoder_t: offset
    decPc,       \* "off" | "init" | "one" | "ranged" | "lifted"
    decStart,    \* dec->offset when the last x86_decode_one call began
    decN,        \* return value of the last x86_decode_one call
    decOut,      \* the x86_decoded_t the last x86_decode_one call wrote to
    decRange,    \* what x86_decode_range returned: insts, count, failed
    liftFunc,    \* what uir_lift_function returned (null = TRUE: NULL)
    semPc,       \* "off" | "idle" | "analyzed"
    semCalls,    \* the sem_classify_import calls made: name, category, word
    semIn,       \* the sem_uir_input_t array given to sem_analyze_functions
    semRes,      \* sem_result_t, and rc of sem_analyze_functions
    genPc,       \* "off" | "ready" | "generated"
    genIn,       \* forth_codegen_input_t
    genDoc,      \* the document forth_generate returned, piece by piece
    walkIn,      \* the lengths of the import and export tables of an image
    walk,        \* parse_imports, parse_exports loop by loop: pc and locals
    fd,          \* the floored division routines: arguments and results
    tb           \* translate_buffer: its position, locals and allocations

peVars == <<data, pad, calloc0Null, oomAt, pePc, ctx, rc, rvaQ, ptrQ>>

decVars ==
    <<decCode, decBase, decOffset, decPc, decStart, decN, decOut, decRange,
      liftFunc>>

semVars == <<semPc, semCalls, semIn, semRes>>

genVars == <<genPc, genIn, genDoc>>

walkVars == <<walkIn, walk>>

vars == <<peVars, decVars, semVars, genVars, walkVars, fd, tb>>

\* what the stages other than the loader, the decoder, the analyzer and the
\* generator own
notPe == <<decVars, semVars, genVars, walkVars, fd, tb>>
notDec == <<peVars, semVars, genVars, walkVars, fd, tb>>
notSem == <<peVars, decVars, genVars, walkVars, fd, tb>>
notGen == <<peVars, decVars, semVars, walkVars, fd, tb>>
notWalk == <<peVars, decVars, semVars, genVars, fd, tb>>
notFd == <<peVars, decVars, semVars, genVars, walkVars, tb>>
notTb == <<peVars, decVars, semVars, genVars, walkVars, fd>>

NULL == -1

Max(a, b) == IF a >= b THEN a ELSE b

(***************************************************************************)
(* uint32_t as <<hi16, lo16>>                                              *)
(***************************************************************************)
Half == 256 * 256

U32(n) == <<n \div Half, n % Half>>

Zero32 == <<0, 0>>

\* value of a uint32_t below 2^31 as a number
ToNat(u) == u[1] * Half + u[2]

Small(u) == u[1] < 32768

Add32(a, b) ==
    LET s == a[2] + b[2]
    IN  <<(a[1] + b[1] + (s \div Half)) % Half, s % Half>>

Sub32(a, b) ==
    LET d == a[2] - b[2]
    IN  IF d >= 0 THEN <<(a[1] - b[1] + Half) % Half, d>>
                  ELSE <<(a[1] - b[1] - 1 + Half) % Half, d + Half>>

Lt32(a, b) == a[1] < b[1] \/ (a[1] = b[1] /\ a[2] < b[2])

Le32(a, b) == a = b \/ Lt32(a, b)

\* (uint32_t)(n * k) for small n, k
Mul32(n, k) == U32(n * k)

(***************************************************************************)
(* Reading the slice.  A read at or past Len(d) is outside the slice: it   *)
(* yields the byte that happens to lie there (pad).                        *)
(***************************************************************************)
Rd8(d, p, off) == IF off < Len(d) THEN d[off + 1] ELSE p

read16(d, p, off) == Rd8(d, p, off) + 256 * Rd8(d, p, off + 1)

read32(d, p, off) == <<read16(d, p, off + 2), read16(d, p, off)>>

\* read64: <<high dword, low dword>>
read64(d, p, off) == <<read32(d, p, off + 4), read32(d, p, off)>>

bounds_check(data_size, offset, read_size) == offset + read_size <= data_size

\* bounds_check with a uint32_t offset widened to size_t
bounds_check32(data_size, off32, read_size) ==
    Small(off32) /\ bounds_check(data_size, ToNat(off32), read_size)

\* bounds_check(size, a, b) with both a and b uint32_t widened to size_t
bounds_check32x2(data_size, a32, b32) ==
    /\ Small(a32) /\ Small(b32)
    /\ ToNat(a32) <= data_size
    /\ ToNat(b32) <= data_size - ToNat(a32)

\* ghost: the highest end offset of any read made so far
Note(c, off, n) == [c EXCEPT !.read_end = Max(@, off + n)]

OverrunLen == 1

RECURSIVE CStrLen(_, _, _)
CStrLen(d, p, off) ==
    IF off >= Len(d) THEN (IF p = 0 THEN 0 ELSE OverrunLen)
    ELSE IF d[off + 1] = 0 THEN 0
    ELSE 1 + CStrLen(d, p, off + 1)

\* strdup((const char*)(data + off)): the bytes up to the terminating NUL
strdup(d, p, off) == [k \in 1..CStrLen(d, p, off) |-> Rd8(d, p, off + k - 1)]

NoteStr(c, d, p, off) == Note(c, off, CStrLen(d, p, off) + 1)

(***************************************************************************)
(* pe_format.h                                                             *)
(***************************************************************************)
DOS_MAGIC == 23117
PE_SIGNATURE == <<0, 17744>>
PE_OPT_MAGIC_PE32 == 267
PE_OPT_MAGIC_PE32PLUS == 523
SizeofDosHeader == 64
SizeofPe32Opt == 96
SizeofPe32PlusOpt == 112
SizeofSectionHeader == 40
SizeofImportDescriptor == 20
DATA_DIR_EXPORT == 0
DATA_DIR_IMPORT == 1
MaxDirs == 16
MaxImportDlls == 1000
MaxImportSyms == 10000
MaxExports == 10000

\* characteristics & SECTION_CNT_CODE (0x00000020)
HasCntCode(ch) == (ch[2] \div 32) % 2 = 1
\* characteristics & SECTION_MEM_EXECUTE (0x20000000)
HasMemExecute(ch) == (ch[1] \div 8192) % 2 = 1

ZeroSection ==
    [virtual_size |-> Zero32, virtual_address |-> Zero32,
     raw_data_size |-> Zero32, raw_data_offset |-> Zero32,
     characteristics |-> Zero32]

\* memset(ctx, 0, sizeof(*ctx)); ctx->data = data; ctx->data_size = size
ZeroCtx(size) ==
    [data_size |-> size, machine |-> 0, is_64bit |-> FALSE,
     image_base |-> <<Zero32, Zero32>>, entry_point_rva |-> Zero32,
     sections_null |-> TRUE, sections |-> <<>>, section_count |-> 0,
     text_data |-> NULL, text_size |-> Zero32, text_rva |-> Zero32,
     imports_null |-> TRUE, imports |-> <<>>, import_count |-> 0,
     exports_null |-> TRUE, exports |-> <<>>, export_count |-> 0,
     read_end |-> 0]

(***************************************************************************)
(* pe_rva_to_ptr: the file offset of the result, or NULL                   *)
(***************************************************************************)
FileOffset(s, rva) == Add32(s.raw_data_offset, Sub32(rva, s.virtual_address))

SectionHit(c, s, rva) ==
    /\ Le32(s.virtual_address, rva)
    /\ Lt32(rva, Add32(s.virtual_address, s.raw_data_size))
    /\ Small(FileOffset(s, rva))
    /\ ToNat(FileOffset(s, rva)) < c.data_size

\* the for loop from section i on
RECURSIVE RvaScan(_, _, _)
RvaScan(c, rva, i) ==
    IF i > c.section_count THEN NULL
    ELSE IF SectionHit(c, c.sections[i], rva)
    THEN ToNat(FileOffset(c.sections[i], rva))
    ELSE RvaScan(c, rva, i + 1)

pe_rva_to_ptr(c, rva) == RvaScan(c, rva, 1)

(***************************************************************************)
(* parse_sections                                                          *)
(***************************************************************************)
ReadSection(d, p, off) ==
    [virtual_size    |-> read32(d, p, off + 8),
     virtual_address |-> read32(d, p, off + 12),
     raw_data_size   |-> read32(d, p, off + 16),
     raw_data_offset |-> read32(d, p, off + 20),
     characteristics |-> read32(d, p, off + 36)]

\* the .text identification of one section header
NoteText(c, s) ==
    IF HasCntCode(s.characteristics) /\ HasMemExecute(s.characteristics)
       /\ c.text_data = NULL
    THEN LET text_size ==
                 IF s.virtual_size = Zero32 \/ Lt32(s.raw_data_size, s.virtual_size)
                 THEN s.raw_data_size ELSE s.virtual_size
         IN  IF bounds_check32x2(c.data_size, s.raw_data_offset, text_size)
             THEN [c EXCEPT !.text_data = ToNat(s.raw_data_offset),
                            !.text_size = text_size,
                            !.text_rva = s.virtual_address]
             ELSE c
    ELSE c

\* the loop body for i = i0 .. count-1; returns <<rc, ctx>>
RECURSIVE SectionLoop(_, _, _, _, _, _)
SectionLoop(d, p, c, table, count, i) ==
    IF i >= count THEN <<0, c>>
    ELSE LET off == table + i * SizeofSectionHeader
         IN  IF ~bounds_check(c.data_size, off, SizeofSectionHeader)
             THEN <<-1, c>>
             ELSE LET s  == ReadSection(d, p, off)
                      c1 == Note([c EXCEPT !.sections[i + 1] = s], off,
                                 SizeofSectionHeader)
                  IN  SectionLoop(d, p, NoteText(c1, s), table, count, i + 1)

parse_sections(d, p, c, table, count, czn, oom) ==
    LET c1 == [c EXCEPT !.section_count = count]
    IN  IF oom = "sections" \/ (count = 0 /\ czn)
        THEN <<-1, c1>>
        ELSE SectionLoop(d, p,
                 [c1 EXCEPT !.sections_null = FALSE,
                            !.sections = [k \in 1..count |-> ZeroSection]],
                 table, count, 0)

(***************************************************************************)
(* parse_imports                                                           *)
(***************************************************************************)
ImportCapInit == 64

DescRva(dir_rva, i) == Add32(dir_rva, Mul32(i, SizeofImportDescriptor))

\* first loop: count the descriptors; returns <<desc_count, ctx>>
RECURSIVE CountDescriptors(_, _, _, _, _, _)
CountAt(d, p, c, dir_rva, i, n, dp) ==
    IF dp = NULL THEN <<n, c>>
    ELSE IF read32(d, p, dp + 12) # Zero32
    THEN IF n + 1 > MaxImportDlls THEN <<n + 1, Note(c, dp + 12, 4)>>
         ELSE CountDescriptors(d, p, Note(c, dp + 12, 4), dir_rva, i + 1, n + 1)
    ELSE IF read32(d, p, dp) = Zero32 THEN <<n, Note(c, dp, 16)>>
    ELSE IF n + 1 > MaxImportDlls THEN <<n + 1, Note(c, dp, 16)>>
    ELSE CountDescriptors(d, p, Note(c, dp, 16), dir_rva, i + 1, n + 1)

CountDescriptors(d, p, c, dir_rva, i, n) ==
    CountAt(d, p, c, dir_rva, i, n, pe_rva_to_ptr(c, DescRva(dir_rva, i)))

\* one lookup-table entry as <<high dword, low dword>>
ReadEntry(d, p, is64, ep) ==
    IF is64 THEN read64(d, p, ep) ELSE <<Zero32, read32(d, p, ep)>>

OrdinalFlag(is64, entry) ==
    IF is64 THEN entry[1][1] >= 32768 ELSE entry[2][1] >= 32768

EntrySize(c) == IF c.is_64bit THEN 8 ELSE 4

\* imp->dll_name, imp->iat_rva of a zeroed pe_import_t
ImportBase(d, p, c, dllp, iat_rva, j) ==
    [dll_name |-> strdup(d, p, dllp),
     iat_rva |-> Add32(iat_rva, Mul32(j, EntrySize(c))),
     ordinal |-> 0, func_name_null |-> TRUE, func_name |-> <<>>]

\* the import by name, hn the resolved hint/name entry; returns <<import, ctx>>
ImportByName(d, p, base, c1, hn) ==
    IF hn = NULL THEN <<base, c1>>
    ELSE <<[base EXCEPT !.ordinal = read16(d, p, hn),
                        !.func_name_null = FALSE,
                        !.func_name = strdup(d, p, hn + 2)],
           NoteStr(Note(c1, hn, 2), d, p, hn + 2)>>

\* the pe_import_t recorded for one entry; returns <<import, ctx>>
MakeImport(d, p, c, dllp, iat_rva, j, entry) ==
    IF OrdinalFlag(c.is_64bit, entry)
    THEN <<[ImportBase(d, p, c, dllp, iat_rva, j) EXCEPT !.ordinal = entry[2][2]],
           NoteStr(c, d, p, dllp)>>
    ELSE ImportByName(d, p, ImportBase(d, p, c, dllp, iat_rva, j),
                      NoteStr(c, d, p, dllp),
                      pe_rva_to_ptr(c, <<entry[2][1] % 32768, entry[2][2]>>))

\* the walk of one lookup table from entry j on.
\* st = [c, imports, cap, failed]
RECURSIVE EntryLoop(_, _, _, _, _, _, _, _)
EntryAdd(d, p, st, ilt_rva, iat_rva, dllp, j, oom, made) ==
    LET st1 == [c |-> made[2],
                imports |-> Append(st.imports, made[1]),
                cap |-> IF Len(st.imports) >= st.cap THEN st.cap * 2 ELSE st.cap,
                failed |-> FALSE]
    IN  IF Len(st1.imports) > MaxImportSyms THEN st1
        ELSE EntryLoop(d, p, st1, ilt_rva, iat_rva, dllp, j + 1, oom)

EntryAt(d, p, st, ilt_rva, iat_rva, dllp, j, oom, ep) ==
    IF ep = NULL THEN st
    ELSE IF ReadEntry(d, p, st.c.is_64bit, ep) = <<Zero32, Zero32>>
    THEN [st EXCEPT !.c = Note(st.c, ep, EntrySize(st.c))]
    ELSE IF Len(st.imports) >= st.cap /\ oom = "grow"
    THEN [st EXCEPT !.c = Note(st.c, ep, EntrySize(st.c)), !.failed = TRUE]
    ELSE EntryAdd(d, p, st, ilt_rva, iat_rva, dllp, j, oom,
                  MakeImport(d, p, Note(st.c, ep, EntrySize(st.c)), dllp, iat_rva,
                             j, ReadEntry(d, p, st.c.is_64bit, ep)))

EntryLoop(d, p, st, ilt_rva, iat_rva, dllp, j, oom) ==
    EntryAt(d, p, st, ilt_rva, iat_rva, dllp, j, oom,
            pe_rva_to_ptr(st.c, Add32(ilt_rva, Mul32(j, EntrySize(st.c)))))

\* ilt_rva of the descriptor at dp: the lookup table, or the address table
IltRva(d, p, dp) ==
    IF read32(d, p, dp) = Zero32 THEN read32(d, p, dp + 16) ELSE read32(d, p, dp)

\* second loop: descriptors dd .. desc_count-1
RECURSIVE DescriptorLoop(_, _, _, _, _, _, _)
DescAt(d, p, st, dir_rva, desc_count, dd, oom, dp, dllp) ==
    IF dllp = NULL
    THEN DescriptorLoop(d, p, [st EXCEPT !.c = Note(st.c, dp + 12, 4)],
                        dir_rva, desc_count, dd + 1, oom)
    ELSE IF IltRva(d, p, dp) = Zero32
    THEN DescriptorLoop(d, p, [st EXCEPT !.c = Note(st.c, dp, 20)],
                        dir_rva, desc_count, dd + 1, oom)
    ELSE DescriptorLoop(d, p,
             EntryLoop(d, p, [st EXCEPT !.c = Note(st.c, dp, 20)],
                       IltRva(d, p, dp), read32(d, p, dp + 16), dllp, 0, oom),
             dir_rva, desc_count, dd + 1, oom)

DescName(d, p, st, dir_rva, desc_count, dd, oom, dp) ==
    DescAt(d, p, st, dir_rva, desc_count, dd, oom, dp,
           pe_rva_to_ptr(st.c, read32(d, p, dp + 12)))

DescriptorLoop(d, p, st, dir_rva, desc_count, dd, oom) ==
    IF dd >= desc_count \/ st.failed THEN st
    ELSE DescName(d, p, st, dir_rva, desc_count, dd, oom,
                  pe_rva_to_ptr(st.c, DescRva(dir_rva, dd)))

\* ctx->imports = imports; ctx->import_count = count
ImportsDone(st) ==
    IF st.failed THEN <<-1, st.c>>
    ELSE <<0, [st.c EXCEPT !.imports_null = FALSE,
                           !.imports = st.imports,
                           !.import_count = Len(st.imports)]>>

ImportsCounted(d, p, counted, import_dir_rva, oom) ==
    IF counted[1] = 0 THEN <<0, counted[2]>>
    ELSE IF oom = "imports" THEN <<-1, counted[2]>>
    ELSE ImportsDone(DescriptorLoop(d, p,
                         [c |-> counted[2], imports |-> <<>>,
                          cap |-> ImportCapInit, failed |-> FALSE],
                         import_dir_rva, counted[1], 0, oom))

\* returns <<rc, ctx>>
parse_imports(d, p, c, import_dir_rva, import_dir_size, oom) ==
    IF import_dir_rva = Zero32 \/ import_dir_size = Zero32 THEN <<0, c>>
    ELSE ImportsCounted(d, p, CountDescriptors(d, p, c, import_dir_rva, 0, 0),
                        import_dir_rva, oom)

(***************************************************************************)
(* parse_exports                                                           *)
(***************************************************************************)
\* the names loop from i on; c.exports holds the entries recorded so far
RECURSIVE ExportLoop(_, _, _, _, _, _, _, _, _)
ExportAt(d, p, c1, names_ptr, ords_ptr, funcs_ptr, ordinal_base, num_names, i, ord_idx, np) ==
    IF np = NULL
    THEN ExportLoop(d, p, c1, names_ptr, ords_ptr, funcs_ptr, ordinal_base,
                    num_names, i + 1)
    ELSE ExportLoop(d, p,
             NoteStr([c1 EXCEPT
                        !.exports = Append(@,
                            [name |-> strdup(d, p, np),
                             ordinal |-> Add32(ordinal_base, U32(ord_idx)),
                             rva |-> read32(d, p, funcs_ptr + ord_idx * 4)]),
                        !.export_count = @ + 1],
                     d, p, np),
             names_ptr, ords_ptr, funcs_ptr, ordinal_base, num_names, i + 1)

ExportOrd(d, p, c, names_ptr, ords_ptr, funcs_ptr, ordinal_base, num_names, i, ord_idx) ==
    ExportAt(d, p,
             Note(Note(Note(c, names_ptr + i * 4, 4), ords_ptr + i * 2, 2),
                  funcs_ptr + ord_idx * 4, 4),
             names_ptr, ords_ptr, funcs_ptr, ordinal_base, num_names, i, ord_idx,
             pe_rva_to_ptr(c, read32(d, p, names_ptr + i * 4)))

ExportLoop(d, p, c, names_ptr, ords_ptr, funcs_ptr, ordinal_base, num_names, i) ==
    IF i >= num_names THEN c
    ELSE ExportOrd(d, p, c, names_ptr, ords_ptr, funcs_ptr, ordinal_base,
                   num_names, i, read16(d, p, ords_ptr + i * 2))

\* the num_names > 0 branch, the three arrays resolved
ExportNames(d, p, c3, ep, names_ptr, ords_ptr, funcs_ptr) ==
    IF names_ptr = NULL \/ ords_ptr = NULL \/ funcs_ptr = NULL THEN <<0, c3>>
    ELSE <<0, ExportLoop(d, p, Note(c3, ep + 16, 4),
                         names_ptr, ords_ptr, funcs_ptr,
                         read32(d, p, ep + 16), ToNat(read32(d, p, ep + 24)), 0)>>

\* the export directory at ep
ExportDir(d, p, c, oom, ep) ==
    IF ep = NULL THEN <<0, c>>
    ELSE IF read32(d, p, ep + 24) = Zero32 /\ read32(d, p, ep + 20) = Zero32
    THEN <<0, Note(c, ep + 20, 8)>>
    ELSE IF Lt32(U32(MaxExports), read32(d, p, ep + 24))
            \/ Lt32(U32(MaxExports), read32(d, p, ep + 20))
    THEN <<0, Note(c, ep + 20, 8)>>
    ELSE IF oom = "exports" THEN <<-1, Note(c, ep + 20, 8)>>
    ELSE IF read32(d, p, ep + 24) = Zero32
    THEN <<0, [Note(c, ep + 20, 8) EXCEPT !.exports_null = FALSE]>>
    ELSE ExportNames(d, p,
             [Note(c, ep + 20, 20) EXCEPT !.exports_null = FALSE], ep,
             pe_rva_to_ptr(c, read32(d, p, ep + 32)),
             pe_rva_to_ptr(c, read32(d, p, ep + 36)),
             pe_rva_to_ptr(c, read32(d, p, ep + 28)))

\* returns <<rc, ctx>>
parse_exports(d, p, c, export_dir_rva, export_dir_size, oom) ==
    IF export_dir_rva = Zero32 \/ export_dir_size = Zero32 THEN <<0, c>>
    ELSE ExportDir(d, p, c, oom, pe_rva_to_ptr(c, export_dir_rva))

(***************************************************************************)
(* pe_load                                                                 *)
(***************************************************************************)
\* min(number_of_rva_and_sizes, 16)
ClipDirs(n32) == IF Lt32(U32(MaxDirs), n32) THEN MaxDirs ELSE ToNat(n32)

\* sizeof the optional header, and the offsets in it of the image base
\* (low dword) and of number_of_rva_and_sizes
OptHeaderSize(is64) == IF is64 THEN SizeofPe32PlusOpt ELSE SizeofPe32Opt
ImageBaseAt(is64) == IF is64 THEN 24 ELSE 28
NumDirsAt(is64) == IF is64 THEN 108 ELSE 92

\* parse_exports on dirs[DATA_DIR_EXPORT], its result ignored
LoadExports(d, p, c3, num_dirs, eoff, oom) ==
    IF num_dirs > DATA_DIR_EXPORT
    THEN <<0, parse_exports(d, p, Note(c3, eoff, 8),
                  read32(d, p, eoff), read32(d, p, eoff + 4), oom)[2]>>
    ELSE <<0, c3>>

\* parse_imports on dirs[DATA_DIR_IMPORT], its result ignored
LoadImports(d, p, c2, num_dirs, dirs, ioff, oom) ==
    IF num_dirs > DATA_DIR_IMPORT
    THEN LoadExports(d, p,
             parse_imports(d, p, Note(c2, ioff, 8),
                 read32(d, p, ioff), read32(d, p, ioff + 4), oom)[2],
             num_dirs, dirs + 8 * DATA_DIR_EXPORT, oom)
    ELSE LoadExports(d, p, c2, num_dirs, dirs + 8 * DATA_DIR_EXPORT, oom)

LoadSections(d, p, secs, num_dirs, dirs, oom) ==
    IF secs[1] # 0 THEN <<-1, secs[2]>>
    ELSE LoadImports(d, p, secs[2], num_dirs, dirs,
                     dirs + 8 * DATA_DIR_IMPORT, oom)

\* the branch of pe_load for one optional-header format.  Returns <<rc, ctx>>.
LoadOptional(d, p, c, opt_offset, opt_header_size, num_sections, is64, czn, oom) ==
    IF ~bounds_check(c.data_size, opt_offset, OptHeaderSize(is64)) THEN <<-1, c>>
    ELSE LoadSections(d, p,
             parse_sections(d, p,
                 Note([c EXCEPT
                         !.is_64bit = is64,
                         !.image_base =
                             <<IF is64 THEN read32(d, p, opt_offset + 28)
                               ELSE Zero32,
                               read32(d, p, opt_offset + ImageBaseAt(is64))>>,
                         !.entry_point_rva = read32(d, p, opt_offset + 16)],
                      opt_offset, OptHeaderSize(is64)),
                 opt_offset + opt_header_size, num_sections, czn, oom),
             ClipDirs(read32(d, p, opt_offset + NumDirsAt(is64))),
             opt_offset + OptHeaderSize(is64), oom)

\* pe_load from the PE signature at po on; c1 the context so far
PeHeaders(d, p, c1, po, czn, oom) ==
    IF read32(d, p, po) # PE_SIGNATURE THEN <<-1, Note(c1, po, 4)>>
    ELSE IF ~bounds_check(Len(d), po + 24, 2)
    THEN <<-1, Note([c1 EXCEPT !.machine = read16(d, p, po + 4)], po, 22)>>
    ELSE IF read16(d, p, po + 24) \notin {PE_OPT_MAGIC_PE32, PE_OPT_MAGIC_PE32PLUS}
    THEN <<-1, Note([c1 EXCEPT !.machine = read16(d, p, po + 4)], po, 26)>>
    ELSE LoadOptional(d, p,
             Note([c1 EXCEPT !.machine = read16(d, p, po + 4)], po, 26),
             po + 24, read16(d, p, po + 20), read16(d, p, po + 6),
             read16(d, p, po + 24) = PE_OPT_MAGIC_PE32PLUS, czn, oom)

\* returns <<rc, ctx>>
pe_load(d, p, czn, oom) ==
    IF Len(d) < SizeofDosHeader THEN <<-1, ZeroCtx(Len(d))>>
    ELSE IF read16(d, p, 0) # DOS_MAGIC THEN <<-1, Note(ZeroCtx(Len(d)), 0, 2)>>
    ELSE IF ~bounds_check32(Len(d), read32(d, p, 60), 4 + 20)
    THEN <<-1, Note(ZeroCtx(Len(d)), 60, 4)>>
    ELSE PeHeaders(d, p, Note(ZeroCtx(Len(d)), 60, 4), ToNat(read32(d, p, 60)),
                   czn, oom)

pe_cleanup(c) ==
    [c EXCEPT !.sections_null = TRUE, !.sections = <<>>,
              !.imports_null = TRUE, !.imports = <<>>,
              !.exports_null = TRUE, !.exports = <<>>,
              !.text_data = NULL, !.text_size = Zero32,
              !.import_count = 0, !.export_count = 0, !.section_count = 0]


\* the loader is not in use
PeIdle ==
    /\ data = <<>> /\ calloc0Null = FALSE /\ oomAt = "none"
    /\ pePc = "off"
    /\ ctx = ZeroCtx(0) /\ rc = 0
    /\ rvaQ = Zero32 /\ ptrQ = NULL

(***************************************************************************)
(* x86_decoder.h / x86_decoder.c.  The decoder reads code[offset] without  *)
(* looking at code_size (peek, eat, read_i8, read_u16, read_i32): a read   *)
(* at or past Len(code) is outside the buffer and yields the byte p.       *)
(* An int64_t is kept as <<hi, lo16>>, its value being hi * 2^16 + lo16.   *)
(***************************************************************************)
I64(n) == <<n \div Half, n % Half>>

I64Add(a, b) == <<a[1] + b[1] + ((a[2] + b[2]) \div Half), (a[2] + b[2]) % Half>>

X86_PREFIX_REP == 1
X86_PREFIX_REPNE == 2
X86_PREFIX_LOCK == 4
X86_PREFIX_OPSIZE == 8
X86_PREFIX_ADDRSIZE == 16

X86_REG_EAX == 0
X86_REG_ECX == 1
X86_REG_EDX == 2

peek(code, p, off) == IF off < Len(code) THEN code[off + 1] ELSE p

has_bytes(code, off, n) == off + n <= Len(code)

\* (int8_t)b
SignedByte(b) == IF b >= 128 THEN b - 256 ELSE b

read_i8(code, p, off) == SignedByte(peek(code, p, off))

read_u16(code, p, off) == peek(code, p, off) + 256 * peek(code, p, off + 1)

\* (int16_t)read_u16
read_i16(code, p, off) ==
    peek(code, p, off) + 256 * SignedByte(peek(code, p, off + 1))

read_i32(code, p, off) ==
    peek(code, p, off) + 256 * peek(code, p, off + 1)
        + 65536 * peek(code, p, off + 2)
        + 16777216 * SignedByte(peek(code, p, off + 3))

\* read_u32 widened to int64_t
read_u32(code, p, off) ==
    <<peek(code, p, off + 2) + 256 * peek(code, p, off + 3),
      peek(code, p, off) + 256 * peek(code, p, off + 1)>>

\* an operand after memset(out, 0, sizeof(*out))
ZeroOp ==
    [type |-> "NONE", size |-> 0, reg |-> 0, base |-> 0, index |-> 0,
     scale |-> 0, disp |-> 0, imm |-> <<0, 0>>]

RegOp(r, sz) == [ZeroOp EXCEPT !.type = "REG", !.reg = r, !.size = sz]

ImmOp(v, sz) == [ZeroOp EXCEPT !.type = "IMM", !.imm = v, !.size = sz]

RelOp(v) == [ZeroOp EXCEPT !.type = "REL", !.imm = v]

\* a memory operand of the moffs forms: no base, no index, scale left 0
MoffsOp(d, sz) ==
    [ZeroOp EXCEPT !.type = "MEM", !.size = sz, !.base = -1, !.index = -1,
                   !.disp = d]

Ops0 == <<ZeroOp, ZeroOp, ZeroOp, ZeroOp>>
Ops1(a) == <<a, ZeroOp, ZeroOp, ZeroOp>>
Ops2(a, b) == <<a, b, ZeroOp, ZeroOp>>
Ops3(a, b, c) == <<a, b, c, ZeroOp>>

ModrmMod(m) == m \div 64
ModrmReg(m) == (m \div 8) % 8
ModrmRm(m) == m % 8

Pow2(k) == IF k = 0 THEN 1 ELSE IF k = 1 THEN 2 ELSE IF k = 2 THEN 4 ELSE 8

\* mod = 00 with rm = 101, or with a SIB byte whose base is 101: disp32 only
DispOnly(m, sib) ==
    ModrmMod(m) = 0 /\ (ModrmRm(m) = 5 \/ (ModrmRm(m) = 4 /\ sib % 8 = 5))

\* where the displacement starts: after the ModR/M byte and the SIB byte
DispAt(m, off) == off + 1 + (IF ModrmRm(m) = 4 THEN 1 ELSE 0)

DispLen(m, sib) ==
    IF DispOnly(m, sib) \/ ModrmMod(m) = 2 THEN 4
    ELSE IF ModrmMod(m) = 1 THEN 1 ELSE 0

MemOp(code, p, off, m, sib, op_size) ==
    [ZeroOp EXCEPT
        !.type = "MEM", !.size = op_size,
        !.base = IF DispOnly(m, sib) THEN -1
                 ELSE IF ModrmRm(m) = 4 THEN sib % 8 ELSE ModrmRm(m),
        !.index = IF ModrmRm(m) = 4 /\ ModrmReg(sib) # 4 THEN ModrmReg(sib)
                  ELSE -1,
        !.scale = IF ModrmRm(m) = 4 THEN Pow2(ModrmMod(sib)) ELSE 1,
        !.disp = IF DispLen(m, sib) = 4 THEN read_i32(code, p, DispAt(m, off))
                 ELSE IF DispLen(m, sib) = 1
                 THEN read_i8(code, p, DispAt(m, off))
                 ELSE 0]

ModrmAt(code, p, off, m, sib, op_size) ==
    IF ModrmMod(m) = 3
    THEN [op |-> RegOp(ModrmRm(m), op_size), reg |-> ModrmReg(m), off |-> off + 1]
    ELSE [op |-> MemOp(code, p, off, m, sib, op_size), reg |-> ModrmReg(m),
          off |-> DispAt(m, off) + DispLen(m, sib)]

\* the r/m operand, the reg field and the offset after the operand bytes
decode_modrm(code, p, off, op_size) ==
    ModrmAt(code, p, off, peek(code, p, off), peek(code, p, off + 1), op_size)

\* what the opcode switch leaves in *out, and dec->offset after it
Dec(ins, cc, n, ops, off) ==
    [instruction |-> ins, cc |-> cc, operand_count |-> n, operands |-> ops,
     off |-> off]

HasBit(mask, bit) == (mask \div bit) % 2 = 1

group1_ops == <<"ADD", "OR", "ADC", "SBB", "AND", "SUB", "XOR", "CMP">>

group3_ops == <<"TEST", "TEST", "NOT", "NEG", "MUL", "IMUL", "DIV", "IDIV">>

group5_ops == <<"INC", "DEC", "CALL", "CALL", "JMP", "JMP", "PUSH", "UNKNOWN">>

shift_ops == <<"ROL", "ROR", "UNKNOWN", "UNKNOWN", "SHL", "SHR", "UNKNOWN", "SAR">>

alu_map == <<"ADD", "OR", "ADC", "SBB", "AND", "SUB", "XOR", "CMP">>

\* shift_ops[reg], with UNKNOWN replaced by SHL
ShiftIns(reg) ==
    IF shift_ops[reg + 1] = "UNKNOWN" THEN "SHL" ELSE shift_ops[reg + 1]

\* (op_size == 2) ? (int16_t)read_u16(dec) : read_i32(dec)
ImmFull(code, p, off, op_size) ==
    IF op_size = 2 THEN I64(read_i16(code, p, off)) ELSE I64(read_i32(code, p, off))

ImmFullLen(op_size) == IF op_size = 2 THEN 2 ELSE 4

\* (uint8_t)eat(dec) as an immediate of size 1
ImmU8(code, p, off) == ImmOp(I64(peek(code, p, off)), 1)

\* (int64_t)(dec->base_address + dec->offset) + rel, dec->offset being after
RelTarget(base, after, rel) == I64Add(I64(base + after), I64(rel))

Rel8(ins, cc, code, p, base, off) ==
    Dec(ins, cc, 1, Ops1(RelOp(RelTarget(base, off + 1, read_i8(code, p, off)))),
        off + 1)

Rel32(ins, cc, code, p, base, off) ==
    Dec(ins, cc, 1, Ops1(RelOp(RelTarget(base, off + 4, read_i32(code, p, off)))),
        off + 4)

Plain(ins, off) == Dec(ins, 0, 0, Ops0, off)

\* m is the result of decode_modrm
RmThenReg(ins, m, sz) == Dec(ins, 0, 2, Ops2(m.op, RegOp(m.reg, sz)), m.off)

RegThenRm(ins, m, sz) == Dec(ins, 0, 2, Ops2(RegOp(m.reg, sz), m.op), m.off)

RmOnly(ins, cc, m) == Dec(ins, cc, 1, Ops1(m.op), m.off)

RmThenImm(ins, m, imm, len) == Dec(ins, 0, 2, Ops2(m.op, imm), m.off + len)

\* opcodes 0x00..0x3F: the ALU rows
AluIns(opcode) == alu_map[((opcode \div 8) % 8) + 1]

AluSize(opcode, op_size) == IF opcode % 2 = 0 THEN 1 ELSE op_size

DecodeAlu(code, p, opcode, off, op_size) ==
    IF opcode % 8 \in {0, 1}
    THEN RmThenReg(AluIns(opcode),
                   decode_modrm(code, p, off, AluSize(opcode, op_size)),
                   AluSize(opcode, op_size))
    ELSE IF opcode % 8 \in {2, 3}
    THEN RegThenRm(AluIns(opcode),
                   decode_modrm(code, p, off, AluSize(opcode, op_size)),
                   AluSize(opcode, op_size))
    ELSE IF opcode % 8 = 4
    THEN Dec(AluIns(opcode), 0, 2,
             Ops2(RegOp(X86_REG_EAX, 1), ImmU8(code, p, off)), off + 1)
    ELSE IF opcode % 8 = 5
    THEN Dec(AluIns(opcode), 0, 2,
             Ops2(RegOp(X86_REG_EAX, op_size),
                  ImmOp(ImmFull(code, p, off, op_size), op_size)),
             off + ImmFullLen(op_size))
    ELSE Plain("UNKNOWN", off)

\* group 1: 0x80, 0x81, 0x83
DecodeGroup1(code, p, opcode, m, op_size) ==
    IF opcode = 128
    THEN RmThenImm(group1_ops[m.reg + 1], m, ImmU8(code, p, m.off), 1)
    ELSE IF opcode = 129
    THEN RmThenImm(group1_ops[m.reg + 1], m,
                   ImmOp(ImmFull(code, p, m.off, op_size), op_size),
                   ImmFullLen(op_size))
    ELSE RmThenImm(group1_ops[m.reg + 1], m,
                   ImmOp(I64(read_i8(code, p, m.off)), op_size), 1)

\* opcodes 0x40..0x8F
DecodeLow(code, p, base, opcode, off, op_size) ==
    IF opcode \in 64..71
    THEN Dec("INC", 0, 1, Ops1(RegOp(opcode - 64, op_size)), off)
    ELSE IF opcode \in 72..79
    THEN Dec("DEC", 0, 1, Ops1(RegOp(opcode - 72, op_size)), off)
    ELSE IF opcode \in 80..87
    THEN Dec("PUSH", 0, 1, Ops1(RegOp(opcode - 80, 4)), off)
    ELSE IF opcode \in 88..95
    THEN Dec("POP", 0, 1, Ops1(RegOp(opcode - 88, 4)), off)
    ELSE IF opcode = 96 THEN Plain("PUSHAD", off)
    ELSE IF opcode = 97 THEN Plain("POPAD", off)
    ELSE IF opcode = 106
    THEN Dec("PUSH", 0, 1, Ops1(ImmOp(I64(read_i8(code, p, off)), 4)), off + 1)
    ELSE IF opcode = 104
    THEN Dec("PUSH", 0, 1, Ops1(ImmOp(I64(read_i32(code, p, off)), 4)), off + 4)
    ELSE IF opcode \in 112..127
    THEN Rel8("JCC", opcode - 112, code, p, base, off)
    ELSE IF opcode = 128
    THEN DecodeGroup1(code, p, opcode, decode_modrm(code, p, off, 1), op_size)
    ELSE IF opcode \in {129, 131}
    THEN DecodeGroup1(code, p, opcode, decode_modrm(code, p, off, op_size),
                      op_size)
    ELSE IF opcode = 132
    THEN RmThenReg("TEST", decode_modrm(code, p, off, 1), 1)
    ELSE IF opcode = 133
    THEN RmThenReg("TEST", decode_modrm(code, p, off, op_size), op_size)
    ELSE IF opcode \in {134, 135}
    THEN RmThenReg("XCHG",
                   decode_modrm(code, p, off, AluSize(opcode, op_size)),
                   AluSize(opcode, op_size))
    ELSE IF opcode = 136
    THEN RmThenReg("MOV", decode_modrm(code, p, off, 1), 1)
    ELSE IF opcode = 137
    THEN RmThenReg("MOV", decode_modrm(code, p, off, op_size), op_size)
    ELSE IF opcode = 138
    THEN RegThenRm("MOV", decode_modrm(code, p, off, 1), 1)
    ELSE IF opcode = 139
    THEN RegThenRm("MOV", decode_modrm(code, p, off, op_size), op_size)
    ELSE IF opcode = 141
    THEN RegThenRm("LEA", decode_modrm(code, p, off, op_size), op_size)
    ELSE Plain("UNKNOWN", off)

\* MOV r/m, imm: 0xC6 (byte = 1) and 0xC7 (byte = 0)
DecodeMovImm(code, p, m, byte, op_size) ==
    IF byte = 1
    THEN RmThenImm("MOV", m, ImmU8(code, p, m.off), 1)
    ELSE RmThenImm("MOV", m, ImmOp(ImmFull(code, p, m.off, op_size), op_size),
                   ImmFullLen(op_size))

\* group 4: 0xFE
DecodeGroup4(m) == RmOnly(IF m.reg = 0 THEN "INC" ELSE "DEC", 0, m)

\* group 5: 0xFF
DecodeGroup5(m) == RmOnly(group5_ops[m.reg + 1], 0, m)

\* shift groups 0xC0, 0xC1 (by imm8) and 0xD0..0xD3 (by 1 or by CL)
DecodeShift(code, p, opcode, m) ==
    IF opcode \in {192, 193}
    THEN RmThenImm(ShiftIns(m.reg), m, ImmU8(code, p, m.off), 1)
    ELSE IF opcode \in {208, 209}
    THEN RmThenImm(ShiftIns(m.reg), m, ImmOp(I64(1), 1), 0)
    ELSE RmThenImm(ShiftIns(m.reg), m, RegOp(X86_REG_ECX, 1), 0)

\* group 3: 0xF6 (imm_len 1) and 0xF7 (imm_len 4, whatever op_size is)
DecodeGroup3(code, p, m, imm_len, op_size) ==
    IF m.reg <= 1
    THEN IF imm_len = 1
         THEN RmThenImm(group3_ops[m.reg + 1], m, ImmU8(code, p, m.off), 1)
         ELSE RmThenImm(group3_ops[m.reg + 1], m,
                        ImmOp(I64(read_i32(code, p, m.off)), op_size), 4)
    ELSE RmOnly(group3_ops[m.reg + 1], 0, m)

\* opcodes 0x90..0xCF
DecodeMid(code, p, opcode, off, prefixes, op_size) ==
    IF opcode = 144 THEN Plain("NOP", off)
    ELSE IF opcode = 152 THEN Plain("CBW", off)
    ELSE IF opcode = 153 THEN Plain("CDQ", off)
    ELSE IF opcode = 160
    THEN Dec("MOV", 0, 2, Ops2(RegOp(X86_REG_EAX, 1),
                               MoffsOp(read_i32(code, p, off), 1)), off + 4)
    ELSE IF opcode = 161
    THEN Dec("MOV", 0, 2, Ops2(RegOp(X86_REG_EAX, op_size),
                               MoffsOp(read_i32(code, p, off), op_size)), off + 4)
    ELSE IF opcode = 162
    THEN Dec("MOV", 0, 2, Ops2(MoffsOp(read_i32(code, p, off), 1),
                               RegOp(X86_REG_EAX, 1)), off + 4)
    ELSE IF opcode = 163
    THEN Dec("MOV", 0, 2, Ops2(MoffsOp(read_i32(code, p, off), op_size),
                               RegOp(X86_REG_EAX, op_size)), off + 4)
    ELSE IF opcode = 164
    THEN Plain(IF HasBit(prefixes, X86_PREFIX_REP) THEN "REP_MOVSB" ELSE "NOP", off)
    ELSE IF opcode = 165
    THEN Plain(IF HasBit(prefixes, X86_PREFIX_REP) THEN "REP_MOVSD" ELSE "NOP", off)
    ELSE IF opcode = 170
    THEN Plain(IF HasBit(prefixes, X86_PREFIX_REP) THEN "REP_STOSB" ELSE "NOP", off)
    ELSE IF opcode = 171
    THEN Plain(IF HasBit(prefixes, X86_PREFIX_REP) THEN "REP_STOSD" ELSE "NOP", off)
    ELSE IF opcode = 168
    THEN Dec("TEST", 0, 2, Ops2(RegOp(X86_REG_EAX, 1), ImmU8(code, p, off)),
             off + 1)
    ELSE IF opcode = 169
    THEN Dec("TEST", 0, 2,
             Ops2(RegOp(X86_REG_EAX, op_size),
                  ImmOp(I64(read_i32(code, p, off)), op_size)), off + 4)
    ELSE IF opcode \in 176..183
    THEN Dec("MOV", 0, 2, Ops2(RegOp(opcode - 176, 1), ImmU8(code, p, off)),
             off + 1)
    ELSE IF opcode \in 184..191
    THEN IF op_size = 2
         THEN Dec("MOV", 0, 2,
                  Ops2(RegOp(opcode - 184, op_size),
                       ImmOp(I64(read_u16(code, p, off)), op_size)), off + 2)
         ELSE Dec("MOV", 0, 2,
                  Ops2(RegOp(opcode - 184, op_size),
                       ImmOp(read_u32(code, p, off), op_size)), off + 4)
    ELSE IF opcode = 192
    THEN DecodeShift(code, p, opcode, decode_modrm(code, p, off, 1))
    ELSE IF opcode = 193
    THEN DecodeShift(code, p, opcode, decode_modrm(code, p, off, op_size))
    ELSE IF opcode = 195 THEN Plain("RET", off)
    ELSE IF opcode = 194
    THEN Dec("RET", 0, 1, Ops1(ImmOp(I64(read_u16(code, p, off)), 2)), off + 2)
    ELSE IF opcode = 198
    THEN DecodeMovImm(code, p, decode_modrm(code, p, off, 1), 1, op_size)
    ELSE IF opcode = 199
    THEN DecodeMovImm(code, p, decode_modrm(code, p, off, op_size), 0,
                         op_size)
    ELSE IF opcode = 201 THEN Plain("LEAVE", off)
    ELSE IF opcode = 205
    THEN Dec("INT", 0, 1, Ops1(ImmU8(code, p, off)), off + 1)
    ELSE Plain("UNKNOWN", off)

\* IN / OUT: 0xE4..0xE7 (port imm8) and 0xEC..0xEF (port in DX)
DecodeIo(code, p, opcode, off, op_size) ==
    IF opcode = 228
    THEN Dec("IN", 0, 2, Ops2(RegOp(X86_REG_EAX, 1), ImmU8(code, p, off)), off + 1)
    ELSE IF opcode = 229
    THEN Dec("IN", 0, 2, Ops2(RegOp(X86_REG_EAX, op_size), ImmU8(code, p, off)),
             off + 1)
    ELSE IF opcode = 230
    THEN Dec("OUT", 0, 2, Ops2(ImmU8(code, p, off), RegOp(X86_REG_EAX, 1)), off + 1)
    ELSE IF opcode = 231
    THEN Dec("OUT", 0, 2, Ops2(ImmU8(code, p, off), RegOp(X86_REG_EAX, op_size)),
             off + 1)
    ELSE IF opcode = 236
    THEN Dec("IN", 0, 2, Ops2(RegOp(X86_REG_EAX, 1), RegOp(X86_REG_EDX, 2)), off)
    ELSE IF opcode = 237
    THEN Dec("IN", 0, 2, Ops2(RegOp(X86_REG_EAX, op_size), RegOp(X86_REG_EDX, 2)),
             off)
    ELSE IF opcode = 238
    THEN Dec("OUT", 0, 2, Ops2(RegOp(X86_REG_EDX, 2), RegOp(X86_REG_EAX, 1)), off)
    ELSE Dec("OUT", 0, 2, Ops2(RegOp(X86_REG_EDX, 2), RegOp(X86_REG_EAX, op_size)),
             off)

\* opcodes 0xD0..0xFF
DecodeHigh(code, p, base, opcode, off, op_size) ==
    IF opcode \in {208, 210}
    THEN DecodeShift(code, p, opcode, decode_modrm(code, p, off, 1))
    ELSE IF opcode \in {209, 211}
    THEN DecodeShift(code, p, opcode, decode_modrm(code, p, off, op_size))
    ELSE IF opcode \in {224, 225, 226}
    THEN Rel8("LOOP", 0, code, p, base, off)
    ELSE IF opcode \in (228..231) \cup (236..239)
    THEN DecodeIo(code, p, opcode, off, op_size)
    ELSE IF opcode = 232 THEN Rel32("CALL", 0, code, p, base, off)
    ELSE IF opcode = 233 THEN Rel32("JMP", 0, code, p, base, off)
    ELSE IF opcode = 235 THEN Rel8("JMP", 0, code, p, base, off)
    ELSE IF opcode = 244 THEN Plain("HLT", off)
    ELSE IF opcode = 246
    THEN DecodeGroup3(code, p, decode_modrm(code, p, off, 1), 1, op_size)
    ELSE IF opcode = 247
    THEN DecodeGroup3(code, p, decode_modrm(code, p, off, op_size), 4, op_size)
    ELSE IF opcode = 250 THEN Plain("CLI", off)
    ELSE IF opcode = 251 THEN Plain("STI", off)
    ELSE IF opcode = 252 THEN Plain("CLD", off)
    ELSE IF opcode = 253 THEN Plain("STD", off)
    ELSE IF opcode = 254
    THEN DecodeGroup4(decode_modrm(code, p, off, 1))
    ELSE IF opcode = 255
    THEN DecodeGroup5(decode_modrm(code, p, off, op_size))
    ELSE Plain("UNKNOWN", off)

\* the two-byte opcodes: op2 is the byte after 0x0F, off the offset after op2
DecodeTwoByte(code, p, base, op2, off, op_size) ==
    IF op2 \in 128..143 THEN Rel32("JCC", op2 - 128, code, p, base, off)
    ELSE IF op2 \in 144..159
    THEN RmOnly("SETCC", op2 - 144, decode_modrm(code, p, off, 1))
    ELSE IF op2 = 182
    THEN RegThenRm("MOVZX", decode_modrm(code, p, off, 1), op_size)
    ELSE IF op2 = 183
    THEN RegThenRm("MOVZX", decode_modrm(code, p, off, 2), op_size)
    ELSE IF op2 = 190
    THEN RegThenRm("MOVSX", decode_modrm(code, p, off, 1), op_size)
    ELSE IF op2 = 191
    THEN RegThenRm("MOVSX", decode_modrm(code, p, off, 2), op_size)
    ELSE IF op2 = 175
    THEN RegThenRm("IMUL", decode_modrm(code, p, off, op_size), op_size)
    ELSE Plain("UNKNOWN", off)

\* the switch on the opcode; off is dec->offset after eat(dec)
DecodeOpcode(code, p, base, opcode, off, prefixes, op_size) ==
    IF opcode = 15
    THEN IF ~has_bytes(code, off, 1) THEN Plain("UNKNOWN", off)
         ELSE DecodeTwoByte(code, p, base, peek(code, p, off), off + 1, op_size)
    ELSE IF opcode < 64 THEN DecodeAlu(code, p, opcode, off, op_size)
    ELSE IF opcode < 144 THEN DecodeLow(code, p, base, opcode, off, op_size)
    ELSE IF opcode < 208 THEN DecodeMid(code, p, opcode, off, prefixes, op_size)
    ELSE DecodeHigh(code, p, base, opcode, off, op_size)

\* *out after memset(out, 0, sizeof(*out))
ZeroInst ==
    [address |-> 0, length |-> 0, instruction |-> "UNKNOWN", operand_count |-> 0,
     operands |-> Ops0, prefixes |-> 0, cc |-> 0]

SegmentOverrides == {38, 46, 54, 62, 100, 101}

PrefixBytes == {243, 242, 240, 102, 103} \cup SegmentOverrides

\* where the prefix loop stops: the first offset from off on that is the end
\* of the buffer or holds no prefix byte
PrefixStops(code, off) ==
    {i \in off..Len(code) : i = Len(code) \/ code[i + 1] \notin PrefixBytes}

PrefixEnd(code, off) ==
    CHOOSE i \in PrefixStops(code, off) : \A j \in PrefixStops(code, off) : i <= j

\* the bit that the loop sets when byte b occurs among the bytes it eats
PrefixBit(code, off, end, b, bit) ==
    IF \E j \in off..(end - 1) : code[j + 1] = b THEN bit ELSE 0

PrefixMask(code, off, end) ==
    PrefixBit(code, off, end, 243, X86_PREFIX_REP)
        + PrefixBit(code, off, end, 242, X86_PREFIX_REPNE)
        + PrefixBit(code, off, end, 240, X86_PREFIX_LOCK)
        + PrefixBit(code, off, end, 102, X86_PREFIX_OPSIZE)
        + PrefixBit(code, off, end, 103, X86_PREFIX_ADDRSIZE)

\* the prefix loop: <<dec->offset, out->prefixes>> when it ends
PrefixRun(code, off, end) == <<end, PrefixMask(code, off, end)>>

PrefixLoop(code, off) == PrefixRun(code, off, PrefixEnd(code, off))

OpSize(prefixes) == IF HasBit(prefixes, X86_PREFIX_OPSIZE) THEN 2 ELSE 4

\* as DecodeDone, but dec->offset is put back to where the call began
DecodeDoneRewound(base, start, prefixes, d) ==
    [n |-> (d.off - start) % 256,
     out |-> [address |-> base + start, length |-> (d.off - start) % 256,
              instruction |-> d.instruction, operand_count |-> d.operand_count,
              operands |-> d.operands, prefixes |-> prefixes, cc |-> d.cc],
     offset |-> start]

\* out->length = (uint8_t)(dec->offset - start); return out->length
DecodeDone(base, start, prefixes, d) ==
    [n |-> (d.off - start) % 256,
     out |-> [address |-> base + start, length |-> (d.off - start) % 256,
              instruction |-> d.instruction, operand_count |-> d.operand_count,
              operands |-> d.operands, prefixes |-> prefixes, cc |-> d.cc],
     offset |-> d.off]

\* pl is the result of the prefix loop
DecodeAfterPrefixes(code, p, base, start, pl) ==
    IF ~has_bytes(code, pl[1], 1)
    THEN [n |-> 0,
          out |-> [ZeroInst EXCEPT !.address = base + start, !.prefixes = pl[2]],
          offset |-> pl[1]]
    ELSE DecodeDone(base, start, pl[2],
                    DecodeOpcode(code, p, base, code[pl[1] + 1], pl[1] + 1,
                                 pl[2], OpSize(pl[2])))

\* the return value n, *out (prev when it is not written) and dec->offset
x86_decode_one(code, p, base, offset, prev) ==
    IF offset >= Len(code) THEN [n |-> 0, out |-> prev, offset |-> offset]
    ELSE DecodeAfterPrefixes(code, p, base, offset, PrefixLoop(code, offset))

RangeCapInit == 256

\* the loop of x86_decode_range may run Len(code) + 1 times in the model
MaxIterations(code) == Len(code) + 1

RangeResult(insts, offset, failed, finished) ==
    [insts |-> insts, count |-> Len(insts), offset |-> offset,
     failed |-> failed, finished |-> finished]

\* the loop of x86_decode_range; insts holds insts[0..count-1]
RECURSIVE RangeLoop(_, _, _, _, _, _, _, _)
RECURSIVE RangeStep(_, _, _, _, _, _, _, _)
RangeLoop(code, p, base, offset, insts, cap, oom, fuel) ==
    IF offset >= Len(code) THEN RangeResult(insts, offset, FALSE, TRUE)
    ELSE IF fuel = 0 THEN RangeResult(insts, offset, FALSE, FALSE)
    ELSE IF Len(insts) >= cap /\ oom = "realloc"
    THEN RangeResult(<<>>, offset, TRUE, TRUE)
    ELSE RangeStep(code, p, base, insts,
                   IF Len(insts) >= cap THEN cap * 2 ELSE cap, oom, fuel,
                   x86_decode_one(code, p, base, offset, ZeroInst))

RangeStep(code, p, base, insts, cap, oom, fuel, r) ==
    IF r.n <= 0 THEN RangeResult(insts, r.offset, FALSE, TRUE)
    ELSE RangeLoop(code, p, base, r.offset, Append(insts, r.out), cap, oom,
                   fuel - 1)

\* failed: the function returned NULL and left *count_out alone
x86_decode_range(code, p, base, offset, oom) ==
    IF oom = "malloc" THEN RangeResult(<<>>, offset, TRUE, TRUE)
    ELSE RangeLoop(code, p, base, offset, <<>>, RangeCapInit, oom,
                   MaxIterations(code))

(***************************************************************************)
(* uir.h / uir.c.  Addresses (uint64_t) that are compared with operand     *)
(* immediates are kept as <<hi, lo16>> like the immediates; the casts      *)
(* between int64_t and uint64_t keep the bits, so equal pairs are equal    *)
(* addresses.  The allocations inside uir_lift_function other than the     *)
(* calloc of the function are taken to succeed.                            *)
(***************************************************************************)
\* a block after block_init
block_init(address) ==
    [address |-> address, instructions |-> <<>>, fall_through |-> -1,
     branch_target |-> -1, is_entry |-> FALSE]

\* as block_append, but the count is not advanced: ins overwrites slot 0
block_append_overwrite(block, ins) ==
    [block EXCEPT !.instructions = <<ins>>]

block_append(block, ins) ==
    [block EXCEPT !.instructions = Append(@, ins)]

target_set_contains(ts, addr) == \E i \in 1..Len(ts) : ts[i] = addr

target_set_add(ts, addr) ==
    IF target_set_contains(ts, addr) THEN ts ELSE Append(ts, addr)

\* as add_port, but without the scan for a duplicate
add_port_unchecked(ports, port) == Append(ports, port)

add_port(ports, port) ==
    IF \E i \in 1..Len(ports) : ports[i] = port THEN ports
    ELSE Append(ports, port)

is_terminator(instruction) == instruction = "JMP" \/ instruction = "RET"

\* a uir_operand_t after memset(&op, 0, sizeof(op))
ZeroUirOp ==
    [type |-> "NONE", size |-> 0, reg |-> 0, index |-> 0, scale |-> 0,
     disp |-> 0, imm |-> <<0, 0>>]

ConvertOp(o) ==
    IF o.type = "REG"
    THEN [ZeroUirOp EXCEPT !.type = "REG", !.reg = o.reg, !.size = o.size]
    ELSE IF o.type = "MEM"
    THEN [ZeroUirOp EXCEPT !.type = "MEM", !.reg = o.base, !.index = o.index,
                           !.scale = o.scale, !.disp = o.disp, !.size = o.size]
    ELSE IF o.type = "IMM"
    THEN [ZeroUirOp EXCEPT !.type = "IMM", !.imm = o.imm, !.size = o.size]
    ELSE IF o.type = "REL"
    THEN [ZeroUirOp EXCEPT !.type = "ADDR", !.imm = o.imm]
    ELSE ZeroUirOp

\* idx counts from 0 as in the source
convert_operand(x86, idx) ==
    IF idx >= x86.operand_count THEN ZeroUirOp
    ELSE ConvertOp(x86.operands[idx + 1])

Uir(opcode, dest, src1, size, x86) ==
    [opcode |-> opcode, dest |-> dest, src1 |-> src1, src2 |-> ZeroUirOp,
     size |-> size, original_address |-> x86.address, cc |-> 0]

\* dest = operand 0, src1 = operand 1, size = operands[0].size
LiftTwo(opcode, x86) ==
    Uir(opcode, convert_operand(x86, 0), convert_operand(x86, 1),
        x86.operands[1].size, x86)

\* dest = operand 0, size = operands[0].size
LiftDest(opcode, x86) ==
    Uir(opcode, convert_operand(x86, 0), ZeroUirOp, x86.operands[1].size, x86)

\* only the opcode, and the branch target when there is one
LiftBranch(opcode, x86) ==
    Uir(opcode, convert_operand(x86, 0), ZeroUirOp, 0, x86)

LiftBare(opcode, x86) == Uir(opcode, ZeroUirOp, ZeroUirOp, 0, x86)

TwoOperandIns ==
    {"MOVZX", "MOVSX", "LEA", "ADD", "SUB", "IMUL", "AND", "OR", "XOR", "SHL",
     "SHR", "SAR", "CMP", "TEST"}

DestOnlyIns == {"MUL", "DIV", "IDIV", "NEG", "INC", "DEC", "NOT"}

LiftMov(x86) ==
    IF x86.operands[1].type = "REG" /\ x86.operands[2].type = "MEM"
    THEN LiftTwo("LOAD", x86)
    ELSE IF x86.operands[1].type = "MEM" THEN LiftTwo("STORE", x86)
    ELSE LiftTwo("MOV", x86)

\* the instruction that lift_one writes to *uir
LiftInstruction(x86) ==
    IF x86.instruction = "IN"
    THEN Uir("PORT_IN", convert_operand(x86, 0), convert_operand(x86, 1),
             x86.operands[1].size, x86)
    ELSE IF x86.instruction = "OUT"
    THEN Uir("PORT_OUT", convert_operand(x86, 0), convert_operand(x86, 1),
             x86.operands[2].size, x86)
    ELSE IF x86.instruction = "MOV" THEN LiftMov(x86)
    ELSE IF x86.instruction \in TwoOperandIns THEN LiftTwo(x86.instruction, x86)
    ELSE IF x86.instruction = "XCHG" THEN LiftTwo("MOV", x86)
    ELSE IF x86.instruction \in DestOnlyIns THEN LiftDest(x86.instruction, x86)
    ELSE IF x86.instruction = "PUSH"
    THEN Uir("PUSH", ZeroUirOp, convert_operand(x86, 0), 4, x86)
    ELSE IF x86.instruction = "POP"
    THEN Uir("POP", convert_operand(x86, 0), ZeroUirOp, 4, x86)
    ELSE IF x86.instruction \in {"JMP", "CALL"}
    THEN LiftBranch(x86.instruction, x86)
    ELSE IF x86.instruction = "JCC"
    THEN [LiftBranch("JCC", x86) EXCEPT !.cc = x86.cc]
    ELSE IF x86.instruction \in {"RET", "CLI", "STI", "HLT"}
    THEN LiftBare(x86.instruction, x86)
    ELSE LiftBare("NOP", x86)

\* as LiftFlags, but only IN counts as port I/O
LiftFlagsInOnly(x86, func) ==
    IF x86.instruction = "IN"
    THEN [func EXCEPT !.has_port_io = TRUE,
                      !.uses_dx_port = @ \/ x86.operands[2].type = "REG"]
    ELSE func

\* what lift_one does to *func
LiftFlags(x86, func) ==
    IF x86.instruction = "IN"
    THEN [func EXCEPT !.has_port_io = TRUE,
                      !.uses_dx_port = @ \/ x86.operands[2].type = "REG"]
    ELSE IF x86.instruction = "OUT"
    THEN [func EXCEPT !.has_port_io = TRUE,
                      !.uses_dx_port = @ \/ x86.operands[1].type = "REG"]
    ELSE func

lift_one(x86, func) ==
    [uir |-> LiftInstruction(x86), func |-> LiftFlags(x86, func)]

\* pass 1, instruction i (from 1): the branch target, then the address after
Pass1Branch(ts, x) ==
    IF x.instruction \in {"JMP", "JCC", "LOOP"} /\ x.operand_count > 0
       /\ x.operands[1].type \in {"REL", "IMM"}
    THEN target_set_add(ts, x.operands[1].imm)
    ELSE ts

\* as Pass1Next, but the instruction after a branch starts no block
Pass1NextSkipped(ts, insts, i) == ts

Pass1Next(ts, insts, i) ==
    IF insts[i].instruction \in {"JMP", "JCC", "LOOP", "RET", "HLT"}
       /\ i + 1 <= Len(insts)
    THEN target_set_add(ts, I64(insts[i + 1].address))
    ELSE ts

RECURSIVE Pass1(_, _, _)
Pass1(ts, insts, i) ==
    IF i > Len(insts) THEN ts
    ELSE Pass1(Pass1Next(Pass1Branch(ts, insts[i]), insts, i), insts, i + 1)

\* pass 2: current is the last block of func->blocks, NULL while there is none
NeedNewBlock(func, targets, x) ==
    func.blocks = <<>> \/ target_set_contains(targets, I64(x.address))

NewBlock(x, entry_address) ==
    [block_init(x.address) EXCEPT !.is_entry = (x.address = entry_address)]

StartBlock(func, targets, x) ==
    IF NeedNewBlock(func, targets, x)
    THEN [func EXCEPT !.blocks = Append(@, NewBlock(x, func.entry_address))]
    ELSE func

AppendToCurrent(func, uir) ==
    [func EXCEPT !.blocks[Len(func.blocks)] = block_append(@, uir)]

\* as TrackPorts, but only the ports read are recorded
TrackPortsReadOnly(func, uir) ==
    IF uir.opcode = "PORT_IN" /\ uir.src1.type = "IMM"
    THEN [func EXCEPT !.ports_read = add_port(@, uir.src1.imm[2])]
    ELSE func

TrackPorts(func, uir) ==
    IF uir.opcode = "PORT_IN" /\ uir.src1.type = "IMM"
    THEN [func EXCEPT !.ports_read = add_port(@, uir.src1.imm[2])]
    ELSE IF uir.opcode = "PORT_OUT" /\ uir.dest.type = "IMM"
    THEN [func EXCEPT !.ports_written = add_port(@, uir.dest.imm[2])]
    ELSE func

\* l is the result of lift_one on the function with the current block
Pass2Lifted(l) == TrackPorts(AppendToCurrent(l.func, l.uir), l.uir)

RECURSIVE Pass2(_, _, _, _)
Pass2(func, targets, insts, i) ==
    IF i > Len(insts) THEN func
    ELSE Pass2(Pass2Lifted(lift_one(insts[i], StartBlock(func, targets, insts[i]))),
               targets, insts, i + 1)

\* pass 3, block b (from 0 as in the source): its two edges
BlockAt(func, target_addr) ==
    {t \in 1..Len(func.blocks) : I64(func.blocks[t].address) = target_addr}

\* the index of the first block at target_addr, or -1
FindBlock(func, target_addr) ==
    IF BlockAt(func, target_addr) = {} THEN -1
    ELSE (CHOOSE t \in BlockAt(func, target_addr) :
              \A u \in BlockAt(func, target_addr) : t <= u) - 1

Last(blk) == blk.instructions[Len(blk.instructions)]

\* as FallThrough, but every block but the last falls through
FallThroughAlways(func, insts, b, last) ==
    IF b + 1 < Len(func.blocks) THEN b + 1 ELSE -1

FallThrough(func, insts, b, last) ==
    IF last.opcode = "JMP" THEN -1
    ELSE IF last.opcode = "JCC"
    THEN IF b + 1 < Len(func.blocks) THEN b + 1 ELSE -1
    ELSE IF ~is_terminator(insts[1].instruction) /\ last.opcode # "RET"
            /\ b + 1 < Len(func.blocks)
    THEN b + 1
    ELSE -1

BranchTarget(func, last) ==
    IF last.opcode \in {"JCC", "JMP"} THEN FindBlock(func, last.dest.imm)
    ELSE -1

LinkBlock(func, insts, b) ==
    IF func.blocks[b + 1].instructions = <<>> THEN func.blocks[b + 1]
    ELSE [func.blocks[b + 1] EXCEPT
             !.fall_through = FallThrough(func, insts, b, Last(func.blocks[b + 1])),
             !.branch_target = BranchTarget(func, Last(func.blocks[b + 1]))]

Pass3(func, insts) ==
    [func EXCEPT !.blocks = [b \in 1..Len(func.blocks) |->
                                LinkBlock(func, insts, b - 1)]]

\* *func after calloc and the entry address
NewFunction(entry_address) ==
    [null |-> FALSE, blocks |-> <<>>, entry_address |-> entry_address,
     ports_read |-> <<>>, ports_written |-> <<>>, has_port_io |-> FALSE,
     uses_dx_port |-> FALSE]

\* the NULL that uir_lift_function returns instead of a function
NullFunction == [NewFunction(0) EXCEPT !.null = TRUE]

\* insts = NULL is an empty array with null = TRUE
uir_lift_function(insts, null, entry_address, oom) ==
    IF null \/ Len(insts) = 0 THEN NullFunction
    ELSE IF oom = "func" THEN NullFunction
    ELSE Pass3(Pass2(NewFunction(entry_address),
                     Pass1(<<I64(entry_address)>>, insts, 1), insts, 1),
               insts)



(***************************************************************************)
(* The semantic analyzer (semantic.c)                                      *)
(***************************************************************************)
\* a const char* that is NULL
NullString == "(NULL)"

\* SEM_API_TABLE without the end sentinel: name, category, forth_equiv
SEM_API_TABLE == <<
    <<"READ_PORT_UCHAR", "PORT_IO", "C@-PORT">>,
    <<"READ_PORT_USHORT", "PORT_IO", "W@-PORT">>,
    <<"READ_PORT_ULONG", "PORT_IO", "@-PORT">>,
    <<"WRITE_PORT_UCHAR", "PORT_IO", "C!-PORT">>,
    <<"WRITE_PORT_USHORT", "PORT_IO", "W!-PORT">>,
    <<"WRITE_PORT_ULONG", "PORT_IO", "!-PORT">>,
    <<"READ_PORT_BUFFER_UCHAR", "PORT_IO", "C@N-PORT">>,
    <<"READ_PORT_BUFFER_USHORT", "PORT_IO", "W@N-PORT">>,
    <<"READ_PORT_BUFFER_ULONG", "PORT_IO", "@N-PORT">>,
    <<"WRITE_PORT_BUFFER_UCHAR", "PORT_IO", "C!N-PORT">>,
    <<"WRITE_PORT_BUFFER_USHORT", "PORT_IO", "W!N-PORT">>,
    <<"WRITE_PORT_BUFFER_ULONG", "PORT_IO", "!N-PORT">>,
    <<"READ_REGISTER_UCHAR", "MMIO", "C@-MMIO">>,
    <<"READ_REGISTER_USHORT", "MMIO", "W@-MMIO">>,
    <<"READ_REGISTER_ULONG", "MMIO", "@-MMIO">>,
    <<"READ_REGISTER_ULONG64", "MMIO", "D@-MMIO">>,
    <<"WRITE_REGISTER_UCHAR", "MMIO", "C!-MMIO">>,
    <<"WRITE_REGISTER_USHORT", "MMIO", "W!-MMIO">>,
    <<"WRITE_REGISTER_ULONG", "MMIO", "!-MMIO">>,
    <<"WRITE_REGISTER_ULONG64", "MMIO", "D!-MMIO">>,
    <<"MmMapIoSpace", "MMIO", "MAP-PHYS">>,
    <<"MmUnmapIoSpace", "MMIO", "UNMAP-PHYS">>,
    <<"KeStallExecutionProcessor", "TIMING", "US-DELAY">>,
    <<"KeDelayExecutionThread", "TIMING", "MS-DELAY">>,
    <<"KeQueryPerformanceCounter", "TIMING", "PERF-COUNT">>,
    <<"KeQuerySystemTime", "TIMING", "SYS-TIME">>,
    <<"IoAllocateMdl", "DMA", "DMA-MDL">>,
    <<"IoFreeMdl", "DMA", "DMA-FREE-MDL">>,
    <<"MmBuildMdlForNonPagedPool", "DMA", "DMA-BUILD">>,
    <<"MmGetPhysicalAddress", "DMA", "VIRT>PHYS">>,
    <<"MmAllocateContiguousMemory", "DMA", "DMA-ALLOC">>,
    <<"MmFreeContiguousMemory", "DMA", "DMA-FREE">>,
    <<"IoGetDmaAdapter", "DMA", "DMA-ADAPTER">>,
    <<"AllocateCommonBuffer", "DMA", "DMA-BUFFER">>,
    <<"FreeCommonBuffer", "DMA", "DMA-UNBUFFER">>,
    <<"MapTransfer", "DMA", "DMA-MAP">>,
    <<"FlushAdapterBuffers", "DMA", "DMA-FLUSH">>,
    <<"IoConnectInterrupt", "INTERRUPT", "IRQ-CONNECT">>,
    <<"IoDisconnectInterrupt", "INTERRUPT", "IRQ-DISCONNECT">>,
    <<"KeSynchronizeExecution", "INTERRUPT", "IRQ-SYNC">>,
    <<"IoRequestDpc", "INTERRUPT", "DPC-REQUEST">>,
    <<"KeInsertQueueDpc", "INTERRUPT", "DPC-QUEUE">>,
    <<"HalGetBusData", "PCI_CONFIG", "PCI-READ">>,
    <<"HalGetBusDataByOffset", "PCI_CONFIG", "PCI-READ@">>,
    <<"HalSetBusData", "PCI_CONFIG", "PCI-WRITE">>,
    <<"HalSetBusDataByOffset", "PCI_CONFIG", "PCI-WRITE@">>,
    <<"IoCompleteRequest", "IRP", NullString>>,
    <<"IoCallDriver", "IRP", NullString>>,
    <<"IoSkipCurrentIrpStackLocation", "IRP", NullString>>,
    <<"IoCopyCurrentIrpStackLocationToNext", "IRP", NullString>>,
    <<"IoGetCurrentIrpStackLocation", "IRP", NullString>>,
    <<"IoMarkIrpPending", "IRP", NullString>>,
    <<"IoSetCompletionRoutine", "IRP", NullString>>,
    <<"IoAllocateIrp", "IRP", NullString>>,
    <<"IoFreeIrp", "IRP", NullString>>,
    <<"IoBuildDeviceIoControlRequest", "IRP", NullString>>,
    <<"IoBuildSynchronousFsdRequest", "IRP", NullString>>,
    <<"IoRegisterDeviceInterface", "PNP", NullString>>,
    <<"IoSetDeviceInterfaceState", "PNP", NullString>>,
    <<"IoOpenDeviceRegistryKey", "PNP", NullString>>,
    <<"IoGetDeviceProperty", "PNP", NullString>>,
    <<"IoInvalidateDeviceRelations", "PNP", NullString>>,
    <<"IoReportTargetDeviceChange", "PNP", NullString>>,
    <<"PoRequestPowerIrp", "POWER", NullString>>,
    <<"PoSetPowerState", "POWER", NullString>>,
    <<"PoCallDriver", "POWER", NullString>>,
    <<"PoStartNextPowerIrp", "POWER", NullString>>,
    <<"PoRegisterDeviceForIdleDetection", "POWER", NullString>>,
    <<"ExAllocatePool", "MEMORY_MGR", NullString>>,
    <<"ExAllocatePoolWithTag", "MEMORY_MGR", NullString>>,
    <<"ExFreePool", "MEMORY_MGR", NullString>>,
    <<"ExFreePoolWithTag", "MEMORY_MGR", NullString>>,
    <<"MmProbeAndLockPages", "MEMORY_MGR", NullString>>,
    <<"MmUnlockPages", "MEMORY_MGR", NullString>>,
    <<"KeInitializeSpinLock", "SYNC", NullString>>,
    <<"KeAcquireSpinLock", "SYNC", NullString>>,
    <<"KeReleaseSpinLock", "SYNC", NullString>>,
    <<"KeAcquireSpinLockAtDpcLevel", "SYNC", NullString>>,
    <<"KeReleaseSpinLockFromDpcLevel", "SYNC", NullString>>,
    <<"KeInitializeEvent", "SYNC", NullString>>,
    <<"KeSetEvent", "SYNC", NullString>>,
    <<"KeClearEvent", "SYNC", NullString>>,
    <<"KeWaitForSingleObject", "SYNC", NullString>>,
    <<"KeWaitForMultipleObjects", "SYNC", NullString>>,
    <<"ExAcquireFastMutex", "SYNC", NullString>>,
    <<"ExReleaseFastMutex", "SYNC", NullString>>,
    <<"ZwOpenKey", "REGISTRY", NullString>>,
    <<"ZwCreateKey", "REGISTRY", NullString>>,
    <<"ZwQueryValueKey", "REGISTRY", NullString>>,
    <<"ZwSetValueKey", "REGISTRY", NullString>>,
    <<"ZwClose", "REGISTRY", NullString>>,
    <<"RtlInitUnicodeString", "STRING", NullString>>,
    <<"RtlCopyUnicodeString", "STRING", NullString>>,
    <<"RtlCompareUnicodeString", "STRING", NullString>>,
    <<"RtlAnsiStringToUnicodeString", "STRING", NullString>>,
    <<"RtlUnicodeStringToAnsiString", "STRING", NullString>>
>>

SEM_API_TABLE_SIZE == Len(SEM_API_TABLE)

\* the entries that strcmp finds equal to func_name
ApiMatches(func_name) ==
    {i \in 1..SEM_API_TABLE_SIZE : SEM_API_TABLE[i][1] = func_name}

\* the entry at which the loop returns
ApiFirst(func_name) ==
    CHOOSE i \in ApiMatches(func_name) :
        \A j \in ApiMatches(func_name) : i <= j

\* as sem_classify_import, but the scan stops one entry before the end
sem_classify_import_short(func_name, want_word) ==
    IF ApiMatches(func_name) \ {SEM_API_TABLE_SIZE} = {}
    THEN [category |-> "UNKNOWN", forth_equiv |-> NullString]
    ELSE [category |-> SEM_API_TABLE[ApiFirst(func_name)][2],
          forth_equiv |-> IF want_word
                          THEN SEM_API_TABLE[ApiFirst(func_name)][3]
                          ELSE NullString]

\* the return value and *forth_equiv (want_word: forth_equiv is not NULL)
sem_classify_import(func_name, want_word) ==
    IF ApiMatches(func_name) = {}
    THEN [category |-> "UNKNOWN", forth_equiv |-> NullString]
    ELSE [category |-> SEM_API_TABLE[ApiFirst(func_name)][2],
          forth_equiv |-> IF want_word
                          THEN SEM_API_TABLE[ApiFirst(func_name)][3]
                          ELSE NullString]

\* a C string as the sequence of its pieces; a NULL pointer is NullText
NullText == <<NullString>>

HexDigits ==
    <<"0", "1", "2", "3", "4", "5", "6", "7", "8", "9", "A", "B", "C", "D",
      "E", "F">>

\* printf("%X", n)
RECURSIVE Hex(_)
Hex(n) ==
    IF n < 16 THEN <<HexDigits[n + 1]>>
    ELSE Hex(n \div 16) \o <<HexDigits[(n % 16) + 1]>>

\* printf("%02X", n)
Hex02(n) == IF n < 16 THEN <<"0">> \o Hex(n) ELSE Hex(n)

\* sf->name: the given name, or "func_%llX" of the entry address
SemName(uf) ==
    IF uf.name # NullText THEN uf.name ELSE <<"func_">> \o Hex(uf.entry_address)

\* the deduplicating copy of src[p..] behind ports
RECURSIVE CollectPorts(_, _, _)
CollectPorts(ports, src, p) ==
    IF p > Len(src) THEN ports
    ELSE CollectPorts(IF \E q \in 1..Len(ports) : ports[q] = src[p]
                      THEN ports ELSE Append(ports, src[p]),
                      src, p + 1)

\* sf after the loop body for uf
AnalyzeOne(uf) ==
    [address |-> uf.entry_address,
     name |-> SemName(uf),
     has_port_io |-> uf.has_port_io,
     ports |-> CollectPorts(CollectPorts(<<>>, uf.ports_read, 1),
                            uf.ports_written, 1),
     primary_category |-> IF uf.has_port_io THEN "PORT_IO" ELSE "UNKNOWN",
     is_hardware |-> uf.has_port_io]

\* as CountFunction, but every function counts as hardware
CountFunctionHw(res, sf) ==
    [res EXCEPT !.functions = Append(@, sf),
                !.hw_function_count = @ + 1]

\* result->functions[i] = sf and the hw / scaffolding count
CountFunction(res, sf) ==
    IF sf.is_hardware
    THEN [res EXCEPT !.functions = Append(@, sf),
                     !.hw_function_count = @ + 1]
    ELSE [res EXCEPT !.functions = Append(@, sf),
                     !.filtered_count = @ + 1]

RECURSIVE AnalyzeLoop(_, _, _)
AnalyzeLoop(res, uir_funcs, i) ==
    IF i > Len(uir_funcs) THEN res
    ELSE AnalyzeLoop(CountFunction(res, AnalyzeOne(uir_funcs[i])),
                     uir_funcs, i + 1)

\* a sem_result_t after memset(&sem, 0, sizeof(sem))
ZeroResult ==
    [rc |-> 0, functions |-> <<>>, functions_null |-> TRUE,
     function_count |-> 0, hw_function_count |-> 0, filtered_count |-> 0]

\* rc and *result; null: uir_funcs is NULL
sem_analyze_functions(uir_funcs, null, res, oom) ==
    IF null \/ Len(uir_funcs) = 0 THEN [res EXCEPT !.rc = 0]
    ELSE IF oom
    THEN [res EXCEPT !.rc = -1, !.functions_null = TRUE, !.functions = <<>>]
    ELSE AnalyzeLoop([res EXCEPT !.rc = 0, !.functions_null = FALSE,
                                 !.functions = <<>>,
                                 !.function_count = Len(uir_funcs),
                                 !.hw_function_count = 0,
                                 !.filtered_count = 0],
                     uir_funcs, 1)

\* the analyzer is not in use
SemIdle ==
    /\ semPc = "off" /\ semCalls = <<>> /\ semIn = <<>>
    /\ semRes = ZeroResult

(***************************************************************************)
(* The Forth code generator (forth_codegen.c).  A string is the sequence   *)
(* of its pieces; the document is the sequence of the pieces appended to   *)
(* the string buffer, NL being the line feed.                              *)
(***************************************************************************)
NL == "\n"

\* the backslash that begins a comment line
Comment == "\\"

\* the line of equals signs around the catalog header
Rule == "===================================================================="

\* opts->field ? opts->field : default
OrDefault(field, default) == IF field # NullText THEN field ELSE default

\* sb_printf(sb, "\\ KEY: %s\n", value)
KeyLine(key, value) == <<Comment, key>> \o value \o <<NL>>

\* the words of one dependency, a blank between two of them
RECURSIVE WordsUsed(_, _)
WordsUsed(words, w) ==
    IF w > Len(words) THEN <<>>
    ELSE (IF w > 1 THEN <<" ">> ELSE <<>>) \o words[w]
             \o WordsUsed(words, w + 1)

\* the REQUIRES: lines from dependency d on
RECURSIVE RequiresLines(_, _)
RequiresLines(requires, d) ==
    IF d > Len(requires) THEN <<>>
    ELSE <<Comment, "REQUIRES:">> \o requires[d].vocab_name \o <<"(">>
             \o WordsUsed(requires[d].words_used, 1) \o <<")", NL>>
             \o RequiresLines(requires, d + 1)

\* the nine key lines
HeaderFields(opts) ==
    KeyLine("CATALOG:", opts.vocab_name)
        \o KeyLine("CATEGORY:", OrDefault(opts.category, <<"unknown">>))
        \o KeyLine("SOURCE:", OrDefault(opts.source_type, <<"unknown">>))
        \o KeyLine("SOURCE-BINARY:", OrDefault(opts.source_binary, <<"none">>))
        \o KeyLine("VENDOR-ID:", OrDefault(opts.vendor_id, <<"none">>))
        \o KeyLine("DEVICE-ID:", OrDefault(opts.device_id, <<"none">>))
        \o KeyLine("PORTS:", OrDefault(opts.ports_desc, <<"none">>))
        \o KeyLine("MMIO:", OrDefault(opts.mmio_desc, <<"none">>))
        \o KeyLine("CONFIDENCE:", OrDefault(opts.confidence, <<"low">>))

emit_catalog_header(opts) ==
    <<Comment, Rule, NL>>
        \o HeaderFields(opts)
        \o RequiresLines(opts.requires, 1)
        \o <<Comment, Rule, NL, NL>>

emit_vocabulary_preamble(name) ==
    <<"VOCABULARY">> \o name \o <<NL>> \o name \o <<"DEFINITIONS", NL>>
        \o <<"HEX", NL, NL>>

\* the CONSTANT lines from offset i on
RECURSIVE RegisterLines(_, _)
RegisterLines(offsets, i) ==
    IF i > Len(offsets) THEN <<>>
    ELSE Hex02(offsets[i]) \o <<"CONSTANT", "REG-">> \o Hex02(offsets[i])
             \o <<NL>> \o RegisterLines(offsets, i + 1)

emit_register_constants(offsets) ==
    IF Len(offsets) = 0 THEN <<>>
    ELSE <<Comment, "---- Register Offsets (extracted from driver) ----", NL>>
             \o RegisterLines(offsets, 1) \o <<NL>>

emit_base_accessors(name) ==
    <<Comment, "---- Hardware Base ----", NL>>
        \o <<"VARIABLE">> \o name \o <<"-BASE", NL, NL>>
        \o <<":">> \o name \o <<"-REG", "( offset -- port )">> \o name
        \o <<"-BASE", "@", "+", ";", NL>>
        \o <<":">> \o name \o <<"@", "( offset -- byte )">> \o name
        \o <<"-REG", "C@-PORT", ";", NL>>
        \o <<":">> \o name \o <<"!", "( byte offset -- )">> \o name
        \o <<"-REG", "C!-PORT", ";", NL, NL>>

read_word_for_size(size) ==
    CASE size = 1 -> "C@-PORT"
      [] size = 2 -> "W@-PORT"
      [] size = 4 -> "@-PORT"
      [] OTHER -> "C@-PORT"

write_word_for_size(size) ==
    CASE size = 1 -> "C!-PORT"
      [] size = 2 -> "W!-PORT"
      [] size = 4 -> "!-PORT"
      [] OTHER -> "C!-PORT"

\* %zu
DecDigits == <<"0", "1", "2", "3", "4", "5", "6", "7", "8", "9">>

RECURSIVE Decimal(_)
Decimal(n) ==
    IF n < 10 THEN <<DecDigits[n + 1]>>
    ELSE Decimal(n \div 10) \o <<DecDigits[(n % 10) + 1]>>

\* sb_printf(sb, "    %02X %s-REG %s\n", op->port_offset, vocab_name, word)
PortOpLine(op, vocab_name) ==
    Hex02(op.port_offset) \o vocab_name
        \o <<"-REG", IF op.is_write THEN write_word_for_size(op.size)
                                    ELSE read_word_for_size(op.size), NL>>

\* the body lines from port op i on
RECURSIVE PortOpLines(_, _, _)
PortOpLines(ops, vocab_name, i) ==
    IF i > Len(ops) THEN <<>>
    ELSE PortOpLine(ops[i], vocab_name) \o PortOpLines(ops, vocab_name, i + 1)

emit_function(func, vocab_name) ==
    IF Len(func.port_ops) = 0
    THEN <<":">> \o func.name
             \o <<"( -- )", Comment, "extracted from", "0x">>
             \o Hex(func.address) \o <<NL, ";", NL, NL>>
    ELSE IF Len(func.port_ops) = 1
    THEN <<":">> \o func.name
             \o <<IF func.port_ops[1].is_write THEN "( value -- )"
                                               ELSE "( -- value )", NL>>
             \o PortOpLine(func.port_ops[1], vocab_name) \o <<";", NL, NL>>
    ELSE <<":">> \o func.name \o <<"( -- )", Comment>>
             \o Decimal(Len(func.port_ops)) \o <<"port operations", NL>>
             \o PortOpLines(func.port_ops, vocab_name, 1) \o <<";", NL, NL>>

\* the function words from function i on
RECURSIVE FunctionWords(_, _, _)
FunctionWords(functions, vocab_name, i) ==
    IF i > Len(functions) THEN <<>>
    ELSE emit_function(functions[i], vocab_name)
             \o FunctionWords(functions, vocab_name, i + 1)

emit_footer == <<"FORTH", "DEFINITIONS", NL, "DECIMAL", NL>>

\* has_ports of forth_generate
HasPorts(input) ==
    \/ Len(input.port_offsets) > 0
    \/ \E i \in 1..Len(input.functions) :
           Len(input.functions[i].port_ops) > 0

forth_generate(input) ==
    emit_catalog_header(input.opts)
        \o emit_vocabulary_preamble(input.opts.vocab_name)
        \o emit_register_constants(input.port_offsets)
        \o (IF HasPorts(input) THEN emit_base_accessors(input.opts.vocab_name)
                               ELSE <<>>)
        \o (IF Len(input.functions) > 0
            THEN <<Comment, "---- Extracted Functions ----", NL>>
                     \o FunctionWords(input.functions, input.opts.vocab_name, 1)
            ELSE <<>>)
        \o emit_footer

\* snprintf(buf, 32, "0x%X" or "0x%X-0x%X", ...)
forth_port_range_desc(base_port, register_count) ==
    IF register_count <= 1 THEN <<"0x">> \o Hex(base_port)
    ELSE <<"0x">> \o Hex(base_port) \o <<"-", "0x">>
             \o Hex(base_port + register_count - 1)

\* memset(opts, 0, sizeof(*opts)), then the six defaults
forth_codegen_opts_init ==
    [vocab_name |-> NullText, category |-> NullText,
     source_type |-> <<"extracted">>, source_binary |-> NullText,
     vendor_id |-> <<"none">>, device_id |-> <<"none">>,
     ports_desc |-> <<"none">>, mmio_desc |-> <<"none">>,
     confidence |-> <<"low">>, requires |-> <<>>]

\* no generator input yet
NoInput == [opts |-> forth_codegen_opts_init, functions |-> <<>>,
            port_offsets |-> <<>>]

GenIdle == genPc = "off" /\ genIn = NoInput /\ genDoc = <<>>

\* the tables of an image: descs descriptors before the terminator, each
\* with a resolvable name and a lookup table of entries entries; an export
\* directory with num_names names, all resolvable, and num_funcs functions
Tables(descs, entries, num_names, num_funcs) ==
    [descs |-> descs, entries |-> entries, num_names |-> num_names,
     num_funcs |-> num_funcs]

\* the locals of parse_imports and parse_exports before the first loop
WalkStart(pc) ==
    [pc |-> pc, desc_count |-> 0, d |-> 0, j |-> 0, count |-> 0,
     import_count |-> 0, i |-> 0, export_count |-> 0]

WalkIdle == walkIn = Tables(0, 0, 0, 0) /\ walk = WalkStart("off")

(***************************************************************************)
(* The floored division reference routines (floored_div.h).  int64_t is    *)
(* scaled to IntBits bits, two's complement.                               *)
(***************************************************************************)
IntBits == 5

RECURSIVE TwoTo(_)
TwoTo(k) == IF k = 0 THEN 1 ELSE 2 * TwoTo(k - 1)

IntMin == 0 - TwoTo(IntBits - 1)
IntMax == TwoTo(IntBits - 1) - 1

\* the value an int64_t holds after an addition or subtraction gave x
WrapInt(x) == ((x - IntMin) % TwoTo(IntBits)) + IntMin

Abs(x) == IF x < 0 THEN 0 - x ELSE x

\* dividend / divisor of C: the quotient rounded toward zero
SymmetricDiv(dividend, divisor) ==
    IF (dividend < 0) = (divisor < 0)
    THEN Abs(dividend) \div Abs(divisor)
    ELSE 0 - (Abs(dividend) \div Abs(divisor))

\* dividend % divisor of C: the remainder has the sign of the dividend
SymmetricMod(dividend, divisor) ==
    IF dividend < 0 THEN 0 - (Abs(dividend) % Abs(divisor))
    ELSE Abs(dividend) % Abs(divisor)

\* (dividend ^ divisor) < 0: the sign bits differ
XorNegative(dividend, divisor) == (dividend < 0) # (divisor < 0)

floored_div64(dividend, divisor) ==
    IF SymmetricMod(dividend, divisor) # 0 /\ XorNegative(dividend, divisor)
    THEN WrapInt(SymmetricDiv(dividend, divisor) - 1)
    ELSE SymmetricDiv(dividend, divisor)

\* as floored_mod64, but the remainder is left as the CPU gives it
floored_mod64_symmetric(dividend, divisor) == SymmetricMod(dividend, divisor)

floored_mod64(dividend, divisor) ==
    IF SymmetricMod(dividend, divisor) # 0 /\ XorNegative(dividend, divisor)
    THEN WrapInt(SymmetricMod(dividend, divisor) + divisor)
    ELSE SymmetricMod(dividend, divisor)

floored_divmod64(dividend, divisor) ==
    IF SymmetricMod(dividend, divisor) # 0 /\ XorNegative(dividend, divisor)
    THEN [quotient |-> WrapInt(SymmetricDiv(dividend, divisor) - 1),
          remainder |-> WrapInt(SymmetricMod(dividend, divisor) + divisor)]
    ELSE [quotient |-> SymmetricDiv(dividend, divisor),
          remainder |-> SymmetricMod(dividend, divisor)]

\* no call made yet on the arguments
FdStart(dividend, divisor) ==
    [dividend |-> dividend, divisor |-> divisor, called |-> {},
     q |-> 0, r |-> 0, result |-> [quotient |-> 0, remainder |-> 0]]

FdIdle == fd = FdStart(0, 0)

(***************************************************************************)
(* translate_buffer, stages 4 and 5 for the Forth target (translator.c)    *)
(***************************************************************************)
\* sem_func_input after the memset and the field copies
SemInputOf(uir_func) ==
    [entry_address |-> uir_func.entry_address, name |-> NullText,
     has_port_io |-> uir_func.has_port_io,
     ports_read |-> uir_func.ports_read,
     ports_written |-> uir_func.ports_written]

\* the ports the function reads or writes
PortsOf(uir_func) ==
    {uir_func.ports_read[i] : i \in 1..Len(uir_func.ports_read)}
        \cup {uir_func.ports_written[i] : i \in 1..Len(uir_func.ports_written)}

MinPort(ports) == CHOOSE m \in ports : \A q \in ports : m <= q
MaxPort(ports) == CHOOSE m \in ports : \A q \in ports : q <= m

\* cg_opts.ports_desc
PortsDesc(uir_func) ==
    IF PortsOf(uir_func) = {} THEN <<"none">>
    ELSE forth_port_range_desc(MinPort(PortsOf(uir_func)),
             MaxPort(PortsOf(uir_func)) - MinPort(PortsOf(uir_func)) + 1)

\* deps: HARDWARE with the port words, or with the words of the hardware
\* imports; hw_words is hw_words_buf
Requires(uir_func, hw_words) ==
    IF uir_func.has_port_io \/ Len(hw_words) > 0
    THEN <<[vocab_name |-> <<"HARDWARE">>,
            words_used |-> IF uir_func.has_port_io
                           THEN << <<"C@-PORT">>, <<"C!-PORT">> >>
                           ELSE hw_words]>>
    ELSE <<>>

\* gen_funcs[gi].port_ops: the reads, then the writes
GenPortOps(uir_func) ==
    [i \in 1..(Len(uir_func.ports_read) + Len(uir_func.ports_written)) |->
        IF i <= Len(uir_func.ports_read)
        THEN [port_offset |-> uir_func.ports_read[i], size |-> 1,
              is_write |-> FALSE]
        ELSE [port_offset |->
                  uir_func.ports_written[i - Len(uir_func.ports_read)],
              size |-> 1, is_write |-> TRUE]]

IsHardware(sf) == sf.is_hardware

\* gen_funcs: one entry per hardware function of the semantic result
GenFuncs(sem, uir_func) ==
    [gi \in 1..Len(SelectSeq(sem.functions, IsHardware)) |->
        [name |-> SelectSeq(sem.functions, IsHardware)[gi].name,
         address |-> SelectSeq(sem.functions, IsHardware)[gi].address,
         port_ops |-> GenPortOps(uir_func)]]

\* cg_input as generate_forth_output hands it to forth_generate
ForthInput(sem, uir_func, hw_words) ==
    [opts |-> [forth_codegen_opts_init EXCEPT
                 !.vocab_name = <<"EXTRACTED">>,
                 !.category = <<"driver">>,
                 !.source_type = <<"extracted">>,
                 !.confidence = IF sem.hw_function_count > 0
                                THEN <<"medium">> ELSE <<"low">>,
                 !.requires = Requires(uir_func, hw_words),
                 !.ports_desc = PortsDesc(uir_func)],
     functions |-> GenFuncs(sem, uir_func),
     port_offsets |-> CollectPorts(CollectPorts(<<>>, uir_func.ports_read, 1),
                                   uir_func.ports_written, 1)]

generate_forth_output(sem, uir_func, hw_words) ==
    forth_generate(ForthInput(sem, uir_func, hw_words))

\* before x86_decode_range has run
NoRange == RangeResult(<<>>, 0, FALSE, FALSE)

\* the decoder and the lifter are not in use
DecIdle ==
    /\ decCode = <<>> /\ decBase = 0 /\ decOffset = 0
    /\ decPc = "off"
    /\ decStart = 0 /\ decN = 0 /\ decOut = ZeroInst
    /\ decRange = NoRange
    /\ liftFunc = NullFunction


(***************************************************************************)
(* translate_buffer (translator.c), stage by stage.  The record tb holds   *)
(* the position in the function, its locals, and for every kind of heap    *)
(* object the calls that created one and the calls that released one.      *)
(***************************************************************************)
Resources ==
    {"sections", "imports", "exports", "insts", "uir_input", "func", "sem"}

\* opts->target; "C" stands for every target behind TARGET_FORTH
Targets == {"DISASM", "UIR", "FORTH", "C"}

\* the allocation of translate_buffer that fails
TbOoms == {"none", "range", "convert", "func"}

\* what strdup(NULL) and strcmp(name, NULL) do: the process is killed, or
\* the library takes the null pointer for an empty string
NullNameOutcomes == {"fault", "empty"}

\* the bytes of "READ_PORT_UCHAR"
ReadPortUcharBytes ==
    <<82, 69, 65, 68, 95, 80, 79, 82, 84, 95, 85, 67, 72, 65, 82>>

\* the name strcmp compares with the table: the one table name an image
\* of the model spells, any other byte string under a name of no entry
CName(bytes) ==
    IF bytes = ReadPortUcharBytes THEN "READ_PORT_UCHAR" ELSE "(other)"

TbStart(pc, d, p, target, oom, nullName) ==
    [pc |-> pc, data |-> d, pad |-> p, target |-> target, oom |-> oom,
     nullName |-> nullName,
     pe |-> ZeroCtx(0), insts |-> NoRange, func |-> NullFunction,
     sem |-> ZeroResult, sem_imports |-> <<>>, null_name_used |-> FALSE,
     success |-> FALSE, error_message |-> NullString, output |-> <<>>,
     acquired |-> [r \in Resources |-> 0],
     released |-> [r \in Resources |-> 0]]

\* translate_buffer is not in use
TbIdle == tb = TbStart("off", <<>>, 0, "DISASM", "none", "fault")

Acquire(t, r, made) ==
    IF made THEN [t EXCEPT !.acquired[r] = @ + 1] ELSE t

Release(t, r, held) ==
    IF held THEN [t EXCEPT !.released[r] = @ + 1] ELSE t

\* pe = the context pe_load left, with what it allocated
WithPe(t, c) ==
    Acquire(Acquire(Acquire([t EXCEPT !.pe = c],
                            "sections", ~c.sections_null),
                    "imports", ~c.imports_null),
            "exports", ~c.exports_null)

\* pe_cleanup(&pe)
TbPeCleanup(t) ==
    [Release(Release(Release(t, "sections", ~t.pe.sections_null),
                     "imports", ~t.pe.imports_null),
             "exports", ~t.pe.exports_null)
        EXCEPT !.pe = pe_cleanup(t.pe)]

\* result.success = false; result.error_message = strdup(msg); return result
Fail(t, msg) ==
    [t EXCEPT !.pc = "returned", !.success = FALSE, !.error_message = msg]

\* result.success = true; result.output = buf; return result
Succeed(t, output) ==
    [t EXCEPT !.pc = "returned", !.success = TRUE, !.output = output]

\* stage 1; r = <<rc, ctx>> of pe_load
TbLoaded(t, r) ==
    IF r[1] # 0 THEN Fail(WithPe(t, r[2]), "Not a valid PE file")
    ELSE IF r[2].text_data = NULL \/ r[2].text_size = Zero32
    THEN Fail(TbPeCleanup(WithPe(t, r[2])), "No .text section found in PE")
    ELSE [WithPe(t, r[2]) EXCEPT !.pc = "loaded"]

\* pe.text_data[0 .. pe.text_size - 1]
TextOf(t) ==
    SubSeq(t.data, t.pe.text_data + 1, t.pe.text_data + ToNat(t.pe.text_size))

\* pe.image_base + rva, for images whose addresses stay below 2^31
TbAddress(t, rva) == ToNat(t.pe.image_base[2]) + ToNat(rva)

\* the lines x86_print_decoded writes, one for each instruction
Disassembly(insts) == [i \in 1..Len(insts) |-> insts[i].instruction]

\* stage 2; r = the result of x86_decode_range
TbDecoded(t, r) ==
    IF r.failed \/ r.count = 0
    THEN Fail(TbPeCleanup(Acquire([t EXCEPT !.insts = r], "insts", ~r.failed)),
              "No instructions decoded from .text section")
    ELSE IF t.target = "DISASM"
    THEN Succeed(TbPeCleanup(Release(Acquire([t EXCEPT !.insts = r],
                                             "insts", TRUE),
                                     "insts", TRUE)),
                 Disassembly(r.insts))
    ELSE [Acquire([t EXCEPT !.insts = r], "insts", TRUE) EXCEPT !.pc = "decoded"]

\* stage 3 from uir_lift_function on; f = the function or NULL
TbLifted(t, f) ==
    IF f.null THEN Fail(TbPeCleanup(t), "UIR lift failed")
    ELSE IF t.target = "UIR"
    THEN Succeed(TbPeCleanup(Release(Acquire([t EXCEPT !.func = f],
                                             "func", TRUE),
                                     "func", TRUE)),
                 <<"uir">>)
    ELSE [Acquire([t EXCEPT !.func = f], "func", TRUE) EXCEPT !.pc = "lifted"]

\* stage 3; t has insts, converted = convert_x86_to_uir_input did not fail;
\* the lifter input holds the fields of the decoded records
TbConverted(t, converted) ==
    IF ~converted
    THEN Fail(TbPeCleanup(Release(t, "insts", TRUE)),
              "Out of memory during UIR conversion")
    ELSE TbLifted(Release(Acquire(Release(t, "insts", TRUE), "uir_input", TRUE),
                          "uir_input", TRUE),
                  uir_lift_function(t.insts.insts, FALSE,
                      TbAddress(t, t.pe.entry_point_rva),
                      IF t.oom = "func" THEN "func" ELSE "none"))

\* one sem_import_t of sem_classify_imports, func_name not NULL
ClassifiedImport(imp, name) ==
    [dll_name |-> imp.dll_name, func_name |-> name, iat_rva |-> imp.iat_rva,
     category |-> sem_classify_import(CName(name), TRUE).category,
     forth_equiv |-> sem_classify_import(CName(name), TRUE).forth_equiv]

\* the loop of sem_classify_imports from import i on; st = [imports, used,
\* fault]: the classified imports, whether a NULL name was passed to strdup
\* and strcmp, and whether that killed the process
RECURSIVE ClassifyLoop(_, _, _, _)
ClassifyLoop(st, pe_imports, i, nullName) ==
    IF i > Len(pe_imports) \/ st.fault THEN st
    ELSE IF ~pe_imports[i].func_name_null
    THEN ClassifyLoop([st EXCEPT !.imports =
                           Append(@, ClassifiedImport(pe_imports[i],
                                                      pe_imports[i].func_name))],
                      pe_imports, i + 1, nullName)
    ELSE IF nullName = "fault"
    THEN [st EXCEPT !.used = TRUE, !.fault = TRUE]
    ELSE ClassifyLoop([st EXCEPT !.used = TRUE,
                                 !.imports =
                           Append(@, ClassifiedImport(pe_imports[i], <<>>))],
                      pe_imports, i + 1, nullName)

sem_classify_imports(pe_imports, nullName) ==
    ClassifyLoop([imports |-> <<>>, used |-> FALSE, fault |-> FALSE],
                 pe_imports, 1, nullName)

\* a category in SEM_CAT_PORT_IO .. SEM_CAT_PCI_CONFIG
sem_is_hardware(cat) ==
    cat \in {"PORT_IO", "MMIO", "DMA", "INTERRUPT", "TIMING", "PCI_CONFIG"}

\* hw_words_buf of generate_forth_output
RECURSIVE HwWords(_, _)
HwWords(imports, i) ==
    IF i > Len(imports) THEN <<>>
    ELSE IF sem_is_hardware(imports[i].category)
            /\ imports[i].forth_equiv # NullString
    THEN << <<imports[i].forth_equiv>> >> \o HwWords(imports, i + 1)
    ELSE HwWords(imports, i + 1)

\* stage 4; c = the result of sem_classify_imports
TbAnalyzed(t, c) ==
    IF c.fault THEN [t EXCEPT !.pc = "killed", !.null_name_used = TRUE]
    ELSE [Acquire([t EXCEPT !.sem_imports = c.imports,
                            !.null_name_used = c.used,
                            !.sem = sem_analyze_functions(<<SemInputOf(t.func)>>,
                                        FALSE, ZeroResult, FALSE)],
                  "sem", TRUE)
            EXCEPT !.pc = "analyzed"]

\* sem_cleanup(&sem); uir_free_function(uir_func); pe_cleanup(&pe)
TbReleaseAll(t) ==
    TbPeCleanup(Release(Release([t EXCEPT !.sem = ZeroResult,
                                          !.sem_imports = <<>>],
                                "sem", TRUE),
                        "func", TRUE))

\* stage 5
TbGenerated(t) ==
    IF t.target = "FORTH"
    THEN Succeed(TbReleaseAll(t),
                 generate_forth_output(t.sem, t.func, HwWords(t.sem_imports, 1)))
    ELSE Fail(TbReleaseAll(t), "Unsupported output target")


(***************************************************************************)
(* Input slices: a small PE32 image in the layout of the loader's test     *)
(* fixture (tests/test_pe_loader.c, build_test_pe_with_imports), with an   *)
(* export directory added, then one field overwritten and the slice cut.   *)
(***************************************************************************)
B16(v) == <<v % 256, v \div 256>>
B32(u) == B16(u[2]) \o B16(u[1])

Put(img, off, bytes) ==
    [i \in 1..Len(img) |->
        IF i - 1 >= off /\ i - 1 < off + Len(bytes) THEN bytes[i - off] ELSE img[i]]

\* the image of n bytes that holds the pokes (a later poke wins), else zero
Poked(pokes, n) ==
    [i \in 1..n |->
        LET at == {k \in 1..Len(pokes) :
                      i - 1 >= pokes[k][1] /\ i - 1 < pokes[k][1] + Len(pokes[k][2])}
        IN  IF at = {} THEN 0
            ELSE LET k == CHOOSE x \in at : \A y \in at : y <= x
                 IN  pokes[k][2][i - pokes[k][1]]]

ImageSize == 432

BaseImage ==
    Poked(<<
        <<0, B16(DOS_MAGIC)>>, <<60, B32(U32(64))>>,           \* DOS header
        <<64, B32(PE_SIGNATURE)>>,
        <<68, B16(332)>>, <<70, B16(2)>>, <<84, B16(112)>>,    \* COFF header
        <<88, B16(PE_OPT_MAGIC_PE32)>>,                        \* optional header
        <<104, B32(U32(4096))>>, <<116, B32(U32(65536))>>,
        <<180, B32(U32(2))>>,
        <<184, B32(U32(8280))>>, <<188, B32(U32(40))>>,        \* export directory
        <<192, B32(U32(8192))>>, <<196, B32(U32(40))>>,        \* import directory
        <<200, <<46, 116>>>>,                                  \* .text
        <<208, B32(U32(5))>>, <<212, B32(U32(4096))>>,
        <<216, B32(U32(8))>>, <<220, B32(U32(280))>>,
        <<236, B32(<<24576, 32>>)>>,
        <<240, <<46, 105>>>>,                                  \* .idata
        <<248, B32(U32(144))>>, <<252, B32(U32(8192))>>,
        <<256, B32(U32(144))>>, <<260, B32(U32(288))>>,
        <<276, B32(<<16384, 64>>)>>,
        <<280, <<228, 96, 230, 97, 195>>>>,                    \* IN; OUT; RET
        <<288, B32(U32(8240))>>, <<300, B32(U32(8232))>>,      \* descriptor 0
        <<304, B32(U32(8256))>>,
        <<328, <<110, 116>>>>,                                 \* DLL name "nt"
        <<336, B32(U32(8272))>>, <<340, B32(<<32768, 5>>)>>,   \* lookup table
        <<352, B32(U32(8272))>>, <<356, B32(<<32768, 5>>)>>,   \* address table
        <<368, B16(7)>>, <<370, <<82>>>>,                      \* hint/name "R"
        <<376 + 16, B32(U32(1))>>,                             \* export directory
        <<376 + 20, B32(U32(1))>>, <<376 + 24, B32(U32(1))>>,
        <<376 + 28, B32(U32(8320))>>, <<376 + 32, B32(U32(8324))>>,
        <<376 + 36, B32(U32(8328))>>,
        <<416, B32(U32(4096))>>, <<420, B32(U32(8332))>>,
        <<424, B16(0)>>, <<428, <<101>>>> >>, ImageSize)

\* field overwrites, each <<offset, bytes>>
Mutations == {
    <<0, <<>>>>,                              \* the image as it is
    <<0, <<238>>>>,                           \* wrong DOS magic
    <<60, B32(<<65535, 65520>>)>>,            \* e_lfanew far outside
    <<60, B32(U32(420))>>,                    \* e_lfanew near the end
    <<64, <<80, 70>>>>,                       \* wrong PE signature
    <<88, B16(PE_OPT_MAGIC_PE32PLUS)>>,
    <<88, B16(2457)>>,                        \* unknown optional magic
    <<70, B16(0)>>, <<70, B16(1)>>,           \* number_of_sections
    <<70, B16(3)>>, <<70, B16(6)>>,
    <<84, B16(0)>>,                           \* size_of_optional_header
    <<180, B32(U32(0))>>, <<180, B32(U32(1))>>,
    <<180, B32(<<65535, 65535>>)>>,           \* number_of_rva_and_sizes
    <<216, B32(U32(65536))>>,                 \* .text raw size past the slice
    <<220, B32(<<65535, 65280>>)>>,           \* .text raw offset near 2^32
    <<220, B32(U32(430))>>,                   \* .text raw data at the very end
    <<252, B32(<<65535, 65520>>)>>,           \* .idata virtual address near 2^32
    <<256, B32(U32(4096))>>,                  \* .idata raw size past the slice
    <<260, B32(U32(400))>>,                   \* .idata raw data shifted
    <<192, B32(U32(8328))>>,                  \* import directory near the end
    <<300, B32(U32(8335))>>,                  \* DLL name at the last byte
    <<336, B32(U32(8334))>>,                  \* hint/name at the end
    <<336, B32(U32(12288))>>,                 \* hint/name unresolvable
    <<376 + 24, B32(U32(3))>>,                \* three export names
    <<376 + 24, B32(U32(0))>>,                \* exports by ordinal only
    <<424, B16(65535)>>,                      \* export ordinal index
    <<431, <<255>>>>                          \* no NUL at the end of the slice
}

Truncations ==
    {0, 2, 63, 64, 87, 88, 89, 150, 183, 184, 192, 199, 200, 239, 240, 279,
     280, 300, 330, 400, 431, ImageSize}

PadBytes == {0, 255}

OomPoints == {"none", "sections", "imports", "exports"}

RvaQueries ==
    {U32(0), U32(4096), U32(4100), U32(4103), U32(4104), U32(8192), U32(8335),
     U32(8336), U32(12287), <<255, 65535>>, <<65535, 65520>>, <<65535, 65535>>}

InitPE ==
    /\ \E m \in Mutations, t \in Truncations :
          data = SubSeq(Put(BaseImage, m[1], m[2]), 1, t)
    /\ pad \in PadBytes
    /\ calloc0Null \in BOOLEAN
    /\ oomAt \in OomPoints
    /\ pePc = "start"
    /\ ctx = ZeroCtx(0)
    /\ rc = 0
    /\ rvaQ = Zero32
    /\ ptrQ = NULL
    /\ DecIdle
    /\ SemIdle
    /\ GenIdle
    /\ WalkIdle
    /\ FdIdle
    /\ TbIdle

PeLoad ==
    /\ pePc = "start"
    /\ \E r \in {pe_load(data, pad, calloc0Null, oomAt)} :
          rc' = r[1] /\ ctx' = r[2]
    /\ pePc' = "loaded"
    /\ UNCHANGED <<data, pad, calloc0Null, oomAt, rvaQ, ptrQ>>
    /\ UNCHANGED notPe

PeRvaToPtr ==
    /\ pePc \in {"loaded", "queried"}
    /\ rc = 0
    /\ \E rva \in RvaQueries :
          /\ rvaQ' = rva
          /\ ptrQ' = pe_rva_to_ptr(ctx, rva)
    /\ pePc' = "queried"
    /\ UNCHANGED <<data, pad, calloc0Null, oomAt, ctx, rc>>
    /\ UNCHANGED notPe

PeCleanup ==
    /\ pePc \in {"loaded", "queried"}
    /\ rc = 0
    /\ ctx' = pe_cleanup(ctx)
    /\ pePc' = "cleaned"
    /\ UNCHANGED <<data, pad, calloc0Null, oomAt, rc, rvaQ, ptrQ>>
    /\ UNCHANGED notPe

NextPE == PeLoad \/ PeRvaToPtr \/ PeCleanup

SpecPE == InitPE /\ [][NextPE]_vars

(***************************************************************************)
(* Properties of the loader                                                *)
(***************************************************************************)

\* C1: every byte that pe_load and its helpers read lies at an offset in
\* [0, size) of the slice they were given.
C1_ReadsInsideSlice == pePc = "loaded" => ctx.read_end <= Len(data)

\* the input conditions under which pe_load has to return an error
HeaderFault(d) ==
    \/ Len(d) < SizeofDosHeader
    \/ read16(d, 0, 0) # DOS_MAGIC
    \/ ~bounds_check32(Len(d), read32(d, 0, 60), 4 + 20)
    \/ read32(d, 0, ToNat(read32(d, 0, 60))) # PE_SIGNATURE
    \/ ~bounds_check(Len(d), ToNat(read32(d, 0, 60)) + 24, 2)
    \/ read16(d, 0, ToNat(read32(d, 0, 60)) + 24)
           \notin {PE_OPT_MAGIC_PE32, PE_OPT_MAGIC_PE32PLUS}

ExposesNothing(c) ==
    /\ c.sections_null /\ c.imports_null /\ c.exports_null
    /\ c.text_data = NULL
    /\ c.section_count = 0 /\ c.import_count = 0 /\ c.export_count = 0

\* C2: pe_load returns an error on a short input, a wrong magic or signature,
\* an unknown optional-header magic or a failed bounds check, and a failing
\* call leaves no partial result in the context.
C2_RejectsWithoutPartialResult ==
    pePc = "loaded" =>
        /\ HeaderFault(data) => rc # 0
        /\ rc # 0 => ExposesNothing(ctx)

\* raw_data_offset + raw_data_size <= data_size, without wrap-around
SectionInside(s, size) ==
    bounds_check32x2(size, s.raw_data_offset, s.raw_data_size)

\* C3: after a successful pe_load the raw bytes of every recorded section
\* lie entirely inside the input slice.
C3_SectionsInsideSlice ==
    pePc = "loaded" /\ rc = 0 =>
        \A i \in 1..ctx.section_count :
            SectionInside(ctx.sections[i], ctx.data_size)

\* virtual_address <= rva < virtual_address + raw_data_size
Contains(s, rva) ==
    /\ Le32(s.virtual_address, rva)
    /\ Lt32(Sub32(rva, s.virtual_address), s.raw_data_size)

\* ptr = raw_data_offset + (rva - virtual_address), inside the slice
PointsInto(c, s, rva, ptr) ==
    /\ ptr # NULL
    /\ Le32(s.raw_data_offset, FileOffset(s, rva))
    /\ Small(FileOffset(s, rva))
    /\ ptr = ToNat(FileOffset(s, rva))
    /\ ptr < c.data_size

\* C4: pe_rva_to_ptr returns the file position of rva in a section that
\* contains it, inside the slice, and NULL when no section contains rva.
C4_RvaResolves ==
    pePc = "queried" =>
        LET containing == {i \in 1..ctx.section_count :
                              Contains(ctx.sections[i], rvaQ)}
        IN  IF containing = {} THEN ptrQ = NULL
            ELSE \E i \in containing :
                     PointsInto(ctx, ctx.sections[i], rvaQ, ptrQ)

(***************************************************************************)
(* The decoder and the lifter at work: a code buffer made of a run of      *)
(* prefix bytes and one instruction, or of two instructions, is decoded    *)
(* one instruction at a time or as a range, and the range is lifted        *)
(* (translator.c, translate_buffer, and tests/test_uir.c, decode_and_lift).*)
(***************************************************************************)
Chunks == {
    <<144>>,                          \* NOP
    <<235, 2>>, <<235, 254>>,         \* JMP rel8, forward and backward
    <<116, 1>>, <<117, 252>>,         \* JE, JNE rel8
    <<232, 0, 0, 0, 0>>,              \* CALL rel32
    <<233, 251, 255, 255, 255>>,      \* JMP rel32 backward
    <<15, 132, 2, 0, 0, 0>>,          \* JE rel32
    <<226, 253>>,                     \* LOOP
    <<108>>,                          \* INSB: not supported
    <<228, 96>>, <<229, 96>>,         \* IN AL, 0x60; IN EAX, 0x60
    <<228, 100>>,                     \* IN AL, 0x64
    <<236>>,                          \* IN AL, DX
    <<230, 97>>, <<231, 97>>,         \* OUT 0x61, AL; OUT 0x61, EAX
    <<238>>,                          \* OUT DX, AL
    <<195>>, <<244>>,                 \* RET; HLT
    <<15>>,                           \* the escape byte alone
    <<15, 11>>,                       \* UD2: no such two-byte opcode here
    <<255, 248>>,                     \* group 5, reg = 7
    <<232, 1>>,                       \* CALL rel32 cut short
    <<230>>,                          \* OUT imm8 cut short
    <<139, 68, 36, 8>>,               \* MOV EAX, [ESP+8]
    <<137, 5, 0, 16, 0, 0>>,          \* MOV [0x1000], EAX
    <<184, 1, 0, 0, 128>>,            \* MOV EAX, 0x80000001
    <<255, 37, 0, 0, 0, 0>>,          \* JMP [0]
    <<164>>, <<243, 164>>             \* MOVSB; REP MOVSB
}

\* the longest run of prefix bytes before an instruction
LongRun == 256

PrefixRuns == {1, 2, LongRun - 2, LongRun - 1, LongRun}

\* operand-size prefix (sets a flag) and CS override (eaten, sets none)
RunBytes == {102, 46}

Run(k, b) == [i \in 1..k |-> b]

\* short programs with a branch, a return or a halt in the middle
Programs == {
    <<144, 235, 0, 144>>,             \* NOP; JMP +0; NOP
    <<144, 235, 1, 144, 144>>,        \* NOP; JMP +1; NOP; NOP
    <<144, 195, 144>>,                \* NOP; RET; NOP
    <<144, 244, 144>>,                \* NOP; HLT; NOP
    <<144, 116, 1, 144, 144>>,        \* NOP; JE +1; NOP; NOP
    <<144, 116, 5, 144>>,             \* NOP; JE +5; NOP
    <<144, 226, 253, 144>>,           \* NOP; LOOP -3; NOP
    <<144, 144, 226, 253, 144>>,      \* NOP; NOP; LOOP -3; NOP
    <<144, 255, 224, 144>>,           \* NOP; JMP EAX; NOP
    <<116, 0, 235, 252, 195>>,        \* JE +0; JMP -4; RET
    <<195, 244, 144>>,                \* RET; HLT; NOP
    <<235, 1, 144, 144>>              \* JMP +1; NOP; NOP
}

CodeBuffers ==
    {c1 \o c2 : c1 \in Chunks, c2 \in Chunks \cup {<<>>}}
        \cup Programs
        \cup {Run(k, b) \o c : k \in PrefixRuns, b \in RunBytes, c \in Chunks}
        \cup {Run(k, b) : k \in {1, LongRun}, b \in RunBytes}

BaseAddresses == {0, 4096}

\* entry_address - base_address
EntryOffsets == {0, 2}

RangeOom == {"none", "malloc"}

LiftOom == {"none", "func"}

\* the state after x86_decoder_init(&dec, X86_MODE_32, code, size, base)
InitDec ==
    /\ decCode \in CodeBuffers
    /\ decBase \in BaseAddresses
    /\ decOffset = 0
    /\ pad \in PadBytes
    /\ decPc = "init"
    /\ decStart = 0 /\ decN = 0 /\ decOut = ZeroInst
    /\ decRange = NoRange
    /\ liftFunc = NullFunction
    /\ PeIdle
    /\ SemIdle
    /\ GenIdle
    /\ WalkIdle
    /\ FdIdle
    /\ TbIdle

DecodeOne ==
    /\ decPc \in {"init", "one"}
    /\ \E r \in {x86_decode_one(decCode, pad, decBase, decOffset, decOut)} :
          /\ decN' = r.n
          /\ decOut' = r.out
          /\ decOffset' = r.offset
    /\ decStart' = decOffset
    /\ decPc' = "one"
    /\ UNCHANGED <<decCode, decBase, decRange, liftFunc>>
    /\ UNCHANGED notDec

DecodeRange ==
    /\ decPc \in {"init", "one"}
    /\ \E oom \in RangeOom :
          \E r \in {x86_decode_range(decCode, pad, decBase, decOffset, oom)} :
              /\ decRange' = r
              /\ decOffset' = r.offset
    /\ decPc' = "ranged"
    /\ UNCHANGED <<decCode, decBase, decStart, decN, decOut, liftFunc>>
    /\ UNCHANGED notDec

Lift ==
    /\ decPc = "ranged"
    /\ \E e \in EntryOffsets, oom \in LiftOom :
          liftFunc' = uir_lift_function(decRange.insts, decRange.failed,
                                        decBase + e, oom)
    /\ decPc' = "lifted"
    /\ UNCHANGED <<decCode, decBase, decOffset, decStart, decN, decOut, decRange>>
    /\ UNCHANGED notDec

\* stages 4 and 5 of translate_buffer on the lifted function, the image
\* importing nothing
TranslateForth ==
    /\ decPc = "lifted"
    /\ ~liftFunc.null
    /\ semIn' = <<SemInputOf(liftFunc)>>
    /\ semRes' = sem_analyze_functions(<<SemInputOf(liftFunc)>>, FALSE,
                                       ZeroResult, FALSE)
    /\ semPc' = "analyzed"
    /\ genIn' = ForthInput(semRes', liftFunc, <<>>)
    /\ genDoc' = generate_forth_output(semRes', liftFunc, <<>>)
    /\ genPc' = "generated"
    /\ decPc' = "translated"
    /\ UNCHANGED <<decCode, decBase, decOffset, decStart, decN, decOut, decRange,
                   liftFunc>>
    /\ UNCHANGED <<peVars, semCalls, walkVars, fd, tb>>

NextDec == DecodeOne \/ DecodeRange \/ Lift \/ TranslateForth

SpecDec == InitDec /\ [][NextDec]_vars

(***************************************************************************)
(* Properties of the decoder and the lifter                                *)
(***************************************************************************)

\* C5: every x86_decode_one call has advanced the cursor by at least one
\* byte, or reports 0 at the end of the buffer; x86_decode_range ends within
\* Len(code) + 1 rounds of its loop and returns at most code_size records.
C5_ProgressAndTermination ==
    /\ decPc = "one" =>
          decOffset > decStart \/ (decN = 0 /\ decStart >= Len(decCode))
    /\ decPc = "ranged" =>
          decRange.finished /\ decRange.count <= Len(decCode)

\* a range of two or more instructions was decoded up to the end of the buffer
C5_Witness ==
    /\ decPc = "ranged" /\ ~decRange.failed
    /\ decRange.count >= 2 /\ decOffset >= Len(decCode)

\* C6: when x86_decode_one returns n > 0, the record's address is
\* base_address + the offset at which the call began, and its length is n,
\* the number of bytes by which the cursor advanced (prefixes included).
C6_LengthIsBytesConsumed ==
    decPc = "one" /\ decN > 0 =>
        /\ decOut.address = decBase + decStart
        /\ decOut.length = decN
        /\ decN = decOffset - decStart

\* the opcode byte of the last call lies at this offset
OpcodeAt == PrefixEnd(decCode, decStart)

\* the last call went into the opcode switch
OpcodeEaten == decStart < Len(decCode) /\ OpcodeAt < Len(decCode)

\* E8, E9, EB, 70..7F, E0..E2 and 0F 80..8F
IsRelOpcode(code, at) ==
    \/ code[at + 1] \in {232, 233, 235} \cup (112..127) \cup (224..226)
    \/ code[at + 1] = 15 /\ at + 1 < Len(code) /\ code[at + 2] \in 128..143

\* the sign-extended relative offset in the instruction bytes
EncodedRel(code, p, at) ==
    IF code[at + 1] \in {232, 233} THEN read_i32(code, p, at + 1)
    ELSE IF code[at + 1] = 15 THEN read_i32(code, p, at + 2)
    ELSE read_i8(code, p, at + 1)

\* C7: a decoded JMP, Jcc, CALL or LOOP with a relative offset has operand 0
\* of type REL holding record.address + record.length + the offset, whatever
\* the base address and the number of prefix bytes are.
C7_RelativeTargets ==
    decPc = "one" /\ decN > 0 /\ OpcodeEaten /\ IsRelOpcode(decCode, OpcodeAt) =>
        /\ decOut.operand_count = 1
        /\ decOut.operands[1].type = "REL"
        /\ decOut.operands[1].imm =
               I64Add(I64(decOut.address + decOut.length),
                      I64(EncodedRel(decCode, pad, OpcodeAt)))

\* the UIR instructions of all blocks in block order
RECURSIVE FlatUir(_, _)
FlatUir(blocks, b) ==
    IF b > Len(blocks) THEN <<>>
    ELSE blocks[b].instructions \o FlatUir(blocks, b + 1)

UnknownBecomesNop(insts, flat) ==
    /\ Len(flat) = Len(insts)
    /\ \A i \in 1..Len(insts) :
          insts[i].instruction = "UNKNOWN" =>
              /\ flat[i].opcode = "NOP"
              /\ flat[i].original_address = insts[i].address

\* C8: an opcode that is not supported (6C..6F among them) yields a record
\* tagged unknown of length >= 1, x86_decode_one returns that length so that
\* decoding goes on behind it, and the lifter makes one NOP of each such
\* record, at the record's place.
C8_UnknownIsNotAnError ==
    /\ decPc = "one" /\ OpcodeEaten /\ decCode[OpcodeAt + 1] \in 108..111 =>
          decOut.instruction = "UNKNOWN"
    /\ decPc = "one" /\ OpcodeEaten /\ decOut.instruction = "UNKNOWN" =>
          decN >= 1 /\ decOut.length >= 1
    /\ decPc = "lifted" /\ ~liftFunc.null =>
          UnknownBecomesNop(decRange.insts, FlatUir(liftFunc.blocks, 1))

HasPortOpcode(f) ==
    \E b \in 1..Len(f.blocks) :
        \E i \in 1..Len(f.blocks[b].instructions) :
            f.blocks[b].instructions[i].opcode \in {"PORT_IN", "PORT_OUT"}

\* C9: a lifted function has has_port_io set exactly when one of its blocks
\* holds a PORT_IN or a PORT_OUT instruction.
C9_HasPortIo ==
    decPc = "lifted" /\ ~liftFunc.null =>
        (liftFunc.has_port_io <=> HasPortOpcode(liftFunc))

\* a function with port I/O was lifted
C9_Witness ==
    /\ decPc = "lifted" /\ ~liftFunc.null
    /\ liftFunc.has_port_io /\ HasPortOpcode(liftFunc)
    /\ \E b \in 1..Len(liftFunc.blocks) :
          Last(liftFunc.blocks[b]).opcode = "PORT_OUT"

\* the immediate port numbers of the PORT_IN instructions of f
ImmPortsIn(f) ==
    {f.blocks[b].instructions[i].src1.imm :
        <<b, i>> \in {<<b, i>> \in (1..Len(f.blocks)) \X (1..8) :
                         /\ i <= Len(f.blocks[b].instructions)
                         /\ f.blocks[b].instructions[i].opcode = "PORT_IN"
                         /\ f.blocks[b].instructions[i].src1.type = "IMM"}}

\* the immediate port numbers of the PORT_OUT instructions of f
ImmPortsOut(f) ==
    {f.blocks[b].instructions[i].dest.imm :
        <<b, i>> \in {<<b, i>> \in (1..Len(f.blocks)) \X (1..8) :
                         /\ i <= Len(f.blocks[b].instructions)
                         /\ f.blocks[b].instructions[i].opcode = "PORT_OUT"
                         /\ f.blocks[b].instructions[i].dest.type = "IMM"}}

NoDuplicate(s) == \A i, j \in 1..Len(s) : s[i] = s[j] => i = j

\* C10: ports_read holds exactly the immediate ports of the PORT_IN
\* instructions, ports_written those of the PORT_OUT instructions, each
\* port once; an access through DX adds no port.
C10_PortSummary ==
    decPc = "lifted" /\ ~liftFunc.null =>
        /\ {I64(liftFunc.ports_read[i]) : i \in 1..Len(liftFunc.ports_read)}
               = ImmPortsIn(liftFunc)
        /\ {I64(liftFunc.ports_written[i]) : i \in 1..Len(liftFunc.ports_written)}
               = ImmPortsOut(liftFunc)
        /\ NoDuplicate(liftFunc.ports_read)
        /\ NoDuplicate(liftFunc.ports_written)

\* two reads of the same immediate port were lifted into one ports_read entry
C10_Witness ==
    /\ decPc = "lifted" /\ ~liftFunc.null
    /\ Len(liftFunc.ports_read) = 1
    /\ Len(FlatUir(liftFunc.blocks, 1)) = 2
    /\ \A i \in 1..2 :
          /\ FlatUir(liftFunc.blocks, 1)[i].opcode = "PORT_IN"
          /\ FlatUir(liftFunc.blocks, 1)[i].src1.type = "IMM"

\* C11: in a lifted function every block whose last instruction is an
\* unconditional JMP or a RET has fall_through = -1.
C11_TerminatedBlocksDoNotFallThrough ==
    decPc = "lifted" /\ ~liftFunc.null =>
        \A b \in 1..Len(liftFunc.blocks) :
            Last(liftFunc.blocks[b]).opcode \in {"JMP", "RET"} =>
                liftFunc.blocks[b].fall_through = -1

\* a function that does not begin with JMP or RET has a block that ends in
\* JMP and a block that ends in RET, both followed by another block
C11_Witness ==
    /\ decPc = "lifted" /\ ~liftFunc.null
    /\ ~is_terminator(decRange.insts[1].instruction)
    /\ \E b \in 1..(Len(liftFunc.blocks) - 1) :
          Last(liftFunc.blocks[b]).opcode \in {"JMP", "RET"}

\* the decoded instruction that the last UIR instruction of blk was made of
LastDecoded(insts, blk) ==
    insts[CHOOSE i \in 1..Len(insts) :
              insts[i].address = Last(blk).original_address]

\* x is a JMP, Jcc or LOOP whose operand is a resolved target address
IsResolvedBranch(x) ==
    /\ x.instruction \in {"JMP", "JCC", "LOOP"}
    /\ x.operand_count > 0
    /\ x.operands[1].type = "REL"

\* the blocks of f that start at address t
BlocksStartingAt(f, t) ==
    {k \in 1..Len(f.blocks) : I64(f.blocks[k].address) = t}

\* blk points at the block that starts at t, or at none when there is none
PointsAtBlock(f, blk, t) ==
    IF BlocksStartingAt(f, t) = {} THEN blk.branch_target = -1
    ELSE blk.branch_target + 1 \in BlocksStartingAt(f, t)

\* C12: a block whose final instruction is a JMP, Jcc or LOOP with a resolved
\* target T has branch_target = the index of the block that starts at T, and
\* -1 when no block starts at T.
C12_BranchTargets ==
    decPc = "lifted" /\ ~liftFunc.null =>
        \A b \in 1..Len(liftFunc.blocks) :
            IsResolvedBranch(LastDecoded(decRange.insts, liftFunc.blocks[b])) =>
                PointsAtBlock(liftFunc, liftFunc.blocks[b],
                    LastDecoded(decRange.insts, liftFunc.blocks[b]).operands[1].imm)

\* instruction i is where a block has to start
IsBlockStart(insts, entry_address, i) ==
    \/ i = 1
    \/ insts[i].address = entry_address
    \/ \E j \in 1..Len(insts) :
          /\ IsResolvedBranch(insts[j])
          /\ insts[j].operands[1].imm = I64(insts[i].address)
    \/ i > 1 /\ insts[i - 1].instruction \in {"JMP", "JCC", "LOOP", "RET", "HLT"}

BlockStarts(insts, entry_address) ==
    {insts[i].address :
        i \in {k \in 1..Len(insts) : IsBlockStart(insts, entry_address, k)}}

ImportCalls ==
    {<<"READ_PORT_UCHAR", TRUE>>, <<"READ_PORT_UCHAR", FALSE>>,
     <<"RtlUnicodeStringToAnsiString", TRUE>>, <<"IoCompleteRequest", TRUE>>,
     <<"read_port_uchar", TRUE>>}

\* the most sem_classify_import calls in one behaviour
MaxCalls == 3

\* the most functions in one sem_analyze_functions call
MaxFunctions == 2

SemFunction(name, has_port_io, ports_read, ports_written) ==
    [entry_address |-> 4096, name |-> name, has_port_io |-> has_port_io,
     ports_read |-> ports_read, ports_written |-> ports_written]

FunctionKinds ==
    {SemFunction(NullText, FALSE, <<>>, <<>>),
     SemFunction(NullText, TRUE, <<>>, <<>>),
     SemFunction(NullText, TRUE, <<96, 100>>, <<96, 97>>),
     SemFunction(<<"DriverEntry">>, FALSE, <<96>>, <<>>)}

FunctionInputs ==
    UNION {[1..n -> FunctionKinds] : n \in 1..MaxFunctions}

InitSem ==
    /\ semPc = "idle"
    /\ semCalls = <<>>
    /\ semIn = <<>>
    /\ semRes = ZeroResult
    /\ pad = 0
    /\ PeIdle
    /\ DecIdle
    /\ GenIdle
    /\ WalkIdle
    /\ FdIdle
    /\ TbIdle

ClassifyImport ==
    /\ semPc \in {"idle", "analyzed"}
    /\ Len(semCalls) < MaxCalls
    /\ \E c \in ImportCalls :
          \E r \in {sem_classify_import(c[1], c[2])} :
              semCalls' = Append(semCalls,
                                 [name |-> c[1], want_word |-> c[2],
                                  category |-> r.category,
                                  forth_equiv |-> r.forth_equiv])
    /\ UNCHANGED <<semPc, semIn, semRes>>
    /\ UNCHANGED notSem

AnalyzeFunctions ==
    /\ semPc = "idle"
    /\ \E funcs \in FunctionInputs, oom \in BOOLEAN :
          /\ semIn' = funcs
          /\ semRes' = sem_analyze_functions(funcs, FALSE, semRes, oom)
    /\ semPc' = "analyzed"
    /\ UNCHANGED semCalls
    /\ UNCHANGED notSem

NextSem == ClassifyImport \/ AnalyzeFunctions

SpecSem == InitSem /\ [][NextSem]_vars

\* the table entries whose name is name
EntriesNamed(name) ==
    {e \in {SEM_API_TABLE[i] : i \in 1..Len(SEM_API_TABLE)} : e[1] = name}

\* C14: sem_classify_import returns the category and the word of the table
\* entry whose name equals the given name exactly, and UNKNOWN with no word
\* when there is none; two classifications of one name give one category,
\* whatever was classified between them.
C14_ClassificationIsAFunction ==
    /\ \A k \in 1..Len(semCalls) :
          IF EntriesNamed(semCalls[k].name) = {}
          THEN semCalls[k].category = "UNKNOWN"
               /\ semCalls[k].forth_equiv = NullString
          ELSE \E e \in EntriesNamed(semCalls[k].name) :
                  /\ semCalls[k].category = e[2]
                  /\ semCalls[k].want_word => semCalls[k].forth_equiv = e[3]
    /\ \A j, k \in 1..Len(semCalls) :
          semCalls[j].name = semCalls[k].name =>
              semCalls[j].category = semCalls[k].category

\* the last table entry was classified twice with another name in between
C14_Witness ==
    /\ Len(semCalls) = 3
    /\ semCalls[1].name = "RtlUnicodeStringToAnsiString"
    /\ semCalls[3].name = "RtlUnicodeStringToAnsiString"
    /\ semCalls[2].name = "READ_PORT_UCHAR"
    /\ semCalls[2].forth_equiv = "C@-PORT"
    /\ semCalls[1].category = "STRING"

\* the number of hardware functions among fs
HwCount(fs) == Cardinality({i \in 1..Len(fs) : fs[i].is_hardware})

TwoLineName == <<"serial", NL, Comment, "CATALOG:", "sys">>

\* the values a caller stores in the fields of opts; NullText is NULL
OptValues ==
    [vocab_name    |-> {<<"SERIAL-16550">>},
     category      |-> {NullText, <<"serial">>},
     source_type   |-> {NullText, <<"extracted">>},
     source_binary |-> {NullText, <<"serial.sys">>, TwoLineName},
     vendor_id     |-> {NullText, <<"8086">>},
     device_id     |-> {NullText, <<"none">>},
     ports_desc    |-> {NullText, forth_port_range_desc(1016, 8)},
     mmio_desc     |-> {NullText, <<"none">>},
     confidence    |-> {NullText, <<"medium">>},
     requires      |-> {<<>>,
                        <<[vocab_name |-> <<"HARDWARE">>,
                           words_used |-> << <<"C@-PORT">>, <<"C!-PORT">> >>]>>}]

PortOp(port_offset, size, is_write) ==
    [port_offset |-> port_offset, size |-> size, is_write |-> is_write]

GenFunction(name, port_ops) ==
    [name |-> <<name>>, address |-> 4096, port_ops |-> port_ops]

\* the functions and the port offsets a caller passes
BodyInputs ==
    { [functions |-> <<>>, port_offsets |-> <<>>],
      [functions |-> <<GenFunction("UART-INIT", <<>>)>>, port_offsets |-> <<>>],
      [functions |-> <<GenFunction("UART-RX", <<PortOp(0, 1, FALSE)>>)>>,
       port_offsets |-> <<0>>],
      [functions |-> <<GenFunction("UART-TX", <<PortOp(0, 2, TRUE)>>),
                       GenFunction("UART-POLL",
                           <<PortOp(5, 4, FALSE), PortOp(0, 4, TRUE)>>)>>,
       port_offsets |-> <<0, 5>>] }

InitGen ==
    /\ genPc = "ready"
    /\ genIn = NoInput
    /\ genDoc = <<>>
    /\ pad = 0
    /\ PeIdle
    /\ DecIdle
    /\ SemIdle
    /\ WalkIdle
    /\ FdIdle
    /\ TbIdle

\* forth_codegen_opts_init(&opts)
OptsInit ==
    /\ genPc \in {"ready", "generated"}
    /\ genIn' = [genIn EXCEPT !.opts = forth_codegen_opts_init]
    /\ genPc' = "ready"
    /\ genDoc' = <<>>
    /\ UNCHANGED notGen

\* opts.field = value
SetOpt ==
    /\ genPc \in {"ready", "generated"}
    /\ \E f \in DOMAIN OptValues : \E v \in OptValues[f] :
           genIn' = [genIn EXCEPT !.opts[f] = v]
    /\ genPc' = "ready"
    /\ genDoc' = <<>>
    /\ UNCHANGED notGen

\* input.functions = ...; input.port_offsets = ...
SetBody ==
    /\ genPc \in {"ready", "generated"}
    /\ \E b \in BodyInputs :
           genIn' = [genIn EXCEPT !.functions = b.functions,
                                  !.port_offsets = b.port_offsets]
    /\ genPc' = "ready"
    /\ genDoc' = <<>>
    /\ UNCHANGED notGen

\* output = forth_generate(&input), the vocabulary name set
Generate ==
    /\ genPc = "ready"
    /\ genIn.opts.vocab_name # NullText
    /\ genDoc' = forth_generate(genIn)
    /\ genPc' = "generated"
    /\ UNCHANGED genIn
    /\ UNCHANGED notGen

NextGen == OptsInit \/ SetOpt \/ SetBody \/ Generate

SpecGen == InitGen /\ [][NextGen]_vars

(***************************************************************************)
(* Reading the document back: its lines, and the key lines of its header   *)
(***************************************************************************)
\* the positions at which a line begins
LineStarts(doc) ==
    {1} \cup {i + 1 : i \in {j \in 1..(Len(doc) - 1) : doc[j] = NL}}

\* the position of the line feed that ends the line beginning at s
LineEnd(doc, s) ==
    CHOOSE e \in s..Len(doc) :
        doc[e] = NL /\ \A j \in s..(e - 1) : doc[j] # NL

\* the lines of equals signs
RuleLines(doc) ==
    {s \in LineStarts(doc) :
        s + 1 <= Len(doc) /\ doc[s] = Comment /\ doc[s + 1] = Rule}

\* the line of equals signs that closes the catalog header
HeaderEnd(doc) ==
    CHOOSE s \in RuleLines(doc) \ {1} : \A t \in RuleLines(doc) \ {1} : s <= t

\* the lines of the catalog header that begin with the key
KeyLinesOf(doc, key) ==
    {s \in LineStarts(doc) :
        s < HeaderEnd(doc) /\ doc[s] = Comment /\ doc[s + 1] = key}

\* what follows the key on the line beginning at s
ValueAt(doc, s) == SubSeq(doc, s + 2, LineEnd(doc, s) - 1)

HeaderKeys ==
    <<"CATALOG:", "CATEGORY:", "SOURCE:", "SOURCE-BINARY:", "VENDOR-ID:",
      "DEVICE-ID:", "PORTS:", "MMIO:", "CONFIDENCE:">>

\* the field of opts printed after the k-th key
HeaderField(opts, k) ==
    CASE k = 1 -> opts.vocab_name
      [] k = 2 -> opts.category
      [] k = 3 -> opts.source_type
      [] k = 4 -> opts.source_binary
      [] k = 5 -> opts.vendor_id
      [] k = 6 -> opts.device_id
      [] k = 7 -> opts.ports_desc
      [] k = 8 -> opts.mmio_desc
      [] k = 9 -> opts.confidence

\* C16: in every generated document the catalog header holds each of the
\* nine keys on exactly one line, the nine lines in the prescribed order, and
\* all of them before any REQUIRES line.
C16_HeaderKeysOnceInOrder ==
    genPc = "generated" =>
        /\ \A k \in 1..Len(HeaderKeys) :
               Cardinality(KeyLinesOf(genDoc, HeaderKeys[k])) = 1
        /\ \A k \in 1..(Len(HeaderKeys) - 1) :
               \A s \in KeyLinesOf(genDoc, HeaderKeys[k]) :
                   \A t \in KeyLinesOf(genDoc, HeaderKeys[k + 1]) : s < t
        /\ \A s \in KeyLinesOf(genDoc, "CONFIDENCE:") :
               \A t \in KeyLinesOf(genDoc, "REQUIRES:") : s < t

\* C17: in every generated document, a header field other than the
\* vocabulary name that the caller left NULL is rendered as none.
C17_MissingValuesRenderNone ==
    genPc = "generated" =>
        \A k \in 2..Len(HeaderKeys) :
            HeaderField(genIn.opts, k) = NullText =>
                \A s \in KeyLinesOf(genDoc, HeaderKeys[k]) :
                    ValueAt(genDoc, s) = <<"none">>


\* the line beginning at s, its line feed included
LineAt(doc, s) == SubSeq(doc, s, LineEnd(doc, s))

\* some decoded IN (is_write false) or OUT (is_write true) names the port as
\* an immediate and moves size bytes
PortInstruction(insts, port, size, is_write) ==
    \E i \in 1..Len(insts) :
        IF is_write
        THEN /\ insts[i].instruction = "OUT"
             /\ insts[i].operands[1].type = "IMM"
             /\ insts[i].operands[1].imm = I64(port)
             /\ insts[i].operands[2].size = size
        ELSE /\ insts[i].instruction = "IN"
             /\ insts[i].operands[2].type = "IMM"
             /\ insts[i].operands[2].imm = I64(port)
             /\ insts[i].operands[1].size = size

\* C18: in the document translate_buffer produces for the Forth target,
\* every port-operation line of a function word carries the access word of
\* the operand size of an IN (for a read) or OUT (for a write) instruction
\* of the code that names that port.
C18_AccessWordMatchesOperandSize ==
    decPc = "translated" =>
        \A s \in LineStarts(genDoc) :
            \A port \in PortsOf(liftFunc), size \in {1, 2, 4},
               is_write \in BOOLEAN :
                LineAt(genDoc, s)
                    = PortOpLine([port_offset |-> port, size |-> size,
                                  is_write |-> is_write],
                                 genIn.opts.vocab_name)
                => PortInstruction(decRange.insts, port, size, is_write)


(***************************************************************************)
(* parse_imports and parse_exports one loop iteration at a time, on tables *)
(* given by their lengths: images whose tables are as long as the sanity   *)
(* limits.  No allocation fails.                                           *)
(***************************************************************************)
TableInputs ==
    { Tables(0, 0, 3, 3),
      Tables(2, 3, 0, 0),
      Tables(MaxImportDlls, 2, 0, MaxExports + 1),
      Tables(MaxImportDlls + 5, 1, MaxExports + 1, 5),
      Tables(3, MaxImportSyms + 5, MaxExports, MaxExports) }

InitWalk ==
    /\ walkIn \in TableInputs
    /\ walk = WalkStart("count")
    /\ pad = 0
    /\ PeIdle
    /\ DecIdle
    /\ SemIdle
    /\ GenIdle
    /\ FdIdle
    /\ TbIdle

\* one iteration of the counting loop; i of the loop is desc_count
CountDescriptor ==
    /\ walk.pc = "count"
    /\ walk' =
           IF walk.desc_count >= walkIn.descs
           THEN [walk EXCEPT !.pc = IF walk.desc_count = 0 THEN "exports"
                                                           ELSE "walk"]
           ELSE IF walk.desc_count + 1 > MaxImportDlls
           THEN [walk EXCEPT !.desc_count = @ + 1, !.pc = "walk"]
           ELSE [walk EXCEPT !.desc_count = @ + 1]
    /\ UNCHANGED walkIn
    /\ UNCHANGED notWalk

\* the head of the loop over the descriptors, and what follows the loop
NextDescriptor ==
    /\ walk.pc = "walk"
    /\ walk' =
           IF walk.d < walk.desc_count
           THEN [walk EXCEPT !.pc = "entries", !.j = 0]
           ELSE [walk EXCEPT !.pc = "exports", !.import_count = walk.count]
    /\ UNCHANGED walkIn
    /\ UNCHANGED notWalk

\* one iteration of the loop over a lookup table
WalkEntry ==
    /\ walk.pc = "entries"
    /\ walk' =
           IF walk.j >= walkIn.entries
           THEN [walk EXCEPT !.pc = "walk", !.d = @ + 1]
           ELSE IF walk.count + 1 > MaxImportSyms
           THEN [walk EXCEPT !.count = @ + 1, !.pc = "walk", !.d = @ + 1]
           ELSE [walk EXCEPT !.count = @ + 1, !.j = @ + 1]
    /\ UNCHANGED walkIn
    /\ UNCHANGED notWalk

\* parse_exports up to its loop
ExportDirectory ==
    /\ walk.pc = "exports"
    /\ walk' =
           IF walkIn.num_names = 0 /\ walkIn.num_funcs = 0
           THEN [walk EXCEPT !.pc = "done"]
           ELSE IF walkIn.num_names > MaxExports \/ walkIn.num_funcs > MaxExports
           THEN [walk EXCEPT !.pc = "done"]
           ELSE [walk EXCEPT !.pc = "names", !.i = 0]
    /\ UNCHANGED walkIn
    /\ UNCHANGED notWalk

\* one iteration of the loop over the export names
ExportName ==
    /\ walk.pc = "names"
    /\ walk' =
           IF walk.i >= walkIn.num_names
           THEN [walk EXCEPT !.pc = "done"]
           ELSE [walk EXCEPT !.export_count = @ + 1, !.i = @ + 1]
    /\ UNCHANGED walkIn
    /\ UNCHANGED notWalk

NextWalk ==
    CountDescriptor \/ NextDescriptor \/ WalkEntry \/ ExportDirectory
        \/ ExportName

SpecWalk == InitWalk /\ [][NextWalk]_vars

\* C19: the loader walks the lookup table of at most 1000 descriptors,
\* records at most 10 000 imported symbols over all DLLs together and at
\* most 10 000 exports.
C19_SanityCaps ==
    /\ (walk.pc = "entries" => walk.d + 1 <= MaxImportDlls)
    /\ walk.count <= MaxImportSyms
    /\ walk.export_count <= MaxExports


(***************************************************************************)
(* Allocation failures in the loader                                       *)
(***************************************************************************)
\* the context pe_load leaves when no allocation fails
Unfailed == pe_load(data, pad, calloc0Null, "none")[2]

\* the allocation named by oomAt is one pe_load makes on this input
AllocationFailed ==
    \/ oomAt = "sections" /\ ~Unfailed.sections_null
    \/ oomAt = "imports" /\ ~Unfailed.imports_null
    \/ oomAt = "exports" /\ ~Unfailed.exports_null

\* C20: when an allocation of the section, import or export parse fails,
\* pe_load returns an error and the context holds none of the arrays it
\* had allocated.
C20_AllocationFailureIsAnError ==
    pePc = "loaded" /\ AllocationFailed =>
        /\ rc # 0
        /\ ctx.sections_null /\ ctx.imports_null /\ ctx.exports_null


(***************************************************************************)
(* Calls of the floored division routines (test_floored_div.c)             *)
(***************************************************************************)
\* the arguments on which dividend / divisor is defined: the divisor is not
\* zero and the symmetric quotient is representable
DivisionInputs ==
    {ab \in (IntMin..IntMax) \X (IntMin..IntMax) :
        ab[2] # 0 /\ ~(ab[1] = IntMin /\ ab[2] = -1)}

InitFd ==
    /\ \E ab \in DivisionInputs : fd = FdStart(ab[1], ab[2])
    /\ pad = 0
    /\ PeIdle
    /\ DecIdle
    /\ SemIdle
    /\ GenIdle
    /\ WalkIdle
    /\ TbIdle

\* q = floored_div64(dividend, divisor)
FlooredDiv ==
    /\ "div" \notin fd.called
    /\ fd' = [fd EXCEPT !.q = floored_div64(fd.dividend, fd.divisor),
                        !.called = @ \cup {"div"}]
    /\ UNCHANGED notFd

\* r = floored_mod64(dividend, divisor)
FlooredMod ==
    /\ "mod" \notin fd.called
    /\ fd' = [fd EXCEPT !.r = floored_mod64(fd.dividend, fd.divisor),
                        !.called = @ \cup {"mod"}]
    /\ UNCHANGED notFd

\* result = floored_divmod64(dividend, divisor)
FlooredDivMod ==
    /\ "divmod" \notin fd.called
    /\ fd' = [fd EXCEPT !.result = floored_divmod64(fd.dividend, fd.divisor),
                        !.called = @ \cup {"divmod"}]
    /\ UNCHANGED notFd

NextFd == FlooredDiv \/ FlooredMod \/ FlooredDivMod

SpecFd == InitFd /\ [][NextFd]_vars

\* C21: once the three routines have been called, dividend = q * divisor + r,
\* r is 0 or has the sign of the divisor, |r| < |divisor|, and
\* floored_divmod64 returned the same q and r.
C21_FlooredDivision ==
    fd.called = {"div", "mod", "divmod"} =>
        /\ fd.dividend = fd.q * fd.divisor + fd.r
        /\ fd.r = 0 \/ (fd.r > 0) = (fd.divisor > 0)
        /\ Abs(fd.r) < Abs(fd.divisor)
        /\ fd.result.quotient = fd.q
        /\ fd.result.remainder = fd.r

\* -7 by 3: the symmetric results -2 and -1 were corrected to -3 and 2
C21_Witness ==
    /\ fd.called = {"div", "mod", "divmod"}
    /\ fd.dividend = -7 /\ fd.divisor = 3
    /\ fd.q = -3 /\ fd.r = 2
    /\ SymmetricDiv(fd.dividend, fd.divisor) = -2


(***************************************************************************)
(* More properties of the decoder and the lifter                           *)
(***************************************************************************)
\* C22: after x86_decode_one the cursor is not beyond code_size, and the
\* record it decoded is the same whatever bytes lie after the buffer.
C22_DecodesInsideBuffer ==
    decPc = "one" =>
        /\ decOffset <= Len(decCode)
        /\ decN > 0 =>
               \A q \in PadBytes :
                   x86_decode_one(decCode, q, decBase, decStart, ZeroInst).out
                       = decOut


\* C23: every block but the last whose last instruction is neither JMP nor
\* RET has fall_through = the index of the next block.
C23_FallThroughToNextBlock ==
    decPc = "lifted" /\ ~liftFunc.null =>
        \A b \in 1..(Len(liftFunc.blocks) - 1) :
            Last(liftFunc.blocks[b]).opcode \notin {"JMP", "RET"} =>
                liftFunc.blocks[b].fall_through = b


\* the branch-target set that pass 1 collects for the lifted sequence
LiftTargets == Pass1(<<I64(liftFunc.entry_address)>>, decRange.insts, 1)

\* block b (from 1) is followed by a block that starts at a collected target
FollowedByTarget(f, b) ==
    /\ b < Len(f.blocks)
    /\ target_set_contains(LiftTargets, I64(f.blocks[b + 1].address))

\* C24: in a lifted function each block's last instruction is RET, JMP or
\* HLT, or the block is immediately followed by a block whose start address
\* is in the branch-target set collected in pass 1.
C24_BlocksEndInTerminatorOrLeadToTarget ==
    decPc = "lifted" /\ ~liftFunc.null =>
        \A b \in 1..Len(liftFunc.blocks) :
            \/ Last(liftFunc.blocks[b]).opcode \in {"RET", "JMP", "HLT"}
            \/ FollowedByTarget(liftFunc, b)


Ascending(s) == \A i \in 1..(Len(s) - 1) : s[i] < s[i + 1]

\* C26: in a lifted function ports_read and ports_written are each in
\* ascending numeric order, whatever the order of the accesses in the code.
C26_PortsAscending ==
    decPc = "lifted" /\ ~liftFunc.null =>
        Ascending(liftFunc.ports_read) /\ Ascending(liftFunc.ports_written)


\* flat holds one UIR instruction for each record of insts, in input order
OneForEachInOrder(insts, flat) ==
    /\ Len(flat) = Len(insts)
    /\ \A i \in 1..Len(insts) : flat[i].original_address = insts[i].address

\* C27: the lifter puts every input record in exactly one block and keeps
\* the input order: the blocks' instructions, concatenated in block order,
\* are one UIR instruction per record, the i-th at the i-th record's address;
\* there is at least one block and no block is empty.
C27_BlocksPartitionTheInput ==
    decPc = "lifted" /\ ~liftFunc.null =>
        /\ OneForEachInOrder(decRange.insts, FlatUir(liftFunc.blocks, 1))
        /\ Len(liftFunc.blocks) >= 1
        /\ \A b \in 1..Len(liftFunc.blocks) :
              liftFunc.blocks[b].instructions # <<>>

\* a function of at least two blocks, one of them with two instructions
C27_Witness ==
    /\ decPc = "lifted" /\ ~liftFunc.null
    /\ Len(liftFunc.blocks) >= 2
    /\ Len(decRange.insts) >= 3
    /\ \E b \in 1..Len(liftFunc.blocks) :
          Len(liftFunc.blocks[b].instructions) >= 2


\* the last instruction of blk is a JMP or Jcc to a resolved absolute address
\* at which block t (from 0) of f starts
BranchesToBlock(f, blk, t) ==
    /\ Last(blk).opcode \in {"JMP", "JCC"}
    /\ Last(blk).dest.type = "ADDR"
    /\ I64(f.blocks[t + 1].address) = Last(blk).dest.imm

\* C28: for every block index b (from 0) fall_through is -1 or b + 1 with
\* b + 1 < block_count, branch_target is -1 or the index of a block, and
\* branch_target is not -1 only when the last instruction is a JMP or Jcc to
\* a resolved absolute address that is the start of block branch_target: a
\* JMP through a register or memory operand leaves branch_target = -1.
C28_EdgesInRange ==
    decPc = "lifted" /\ ~liftFunc.null =>
        \A b \in 0..(Len(liftFunc.blocks) - 1) :
            /\ \/ liftFunc.blocks[b + 1].fall_through = -1
               \/ /\ liftFunc.blocks[b + 1].fall_through = b + 1
                  /\ b + 1 < Len(liftFunc.blocks)
            /\ \/ liftFunc.blocks[b + 1].branch_target = -1
               \/ /\ liftFunc.blocks[b + 1].branch_target
                         \in 0..(Len(liftFunc.blocks) - 1)
                  /\ BranchesToBlock(liftFunc, liftFunc.blocks[b + 1],
                                     liftFunc.blocks[b + 1].branch_target)


(***************************************************************************)
(* translate_buffer on small images: the base image with one field         *)
(* overwritten and five bytes of code in its .text section.  Every code    *)
(* is made of whole instructions or of prefix bytes only, so the decoder   *)
(* reads nothing behind the section.                                       *)
(***************************************************************************)
TbMutations == {
    <<0, <<>>>>,                              \* imports "R" and ordinal 5
    <<340, B32(U32(0))>>,                     \* the import by name only
    <<370, ReadPortUcharBytes>>,              \* the named import is in the table
    <<180, B32(U32(0))>>,                     \* no data directories
    <<0, <<238>>>>,                           \* wrong DOS magic
    <<70, B16(6)>>,                           \* section table behind the image
    <<236, B32(U32(0))>>                      \* .text is not code
}

TbCodes == {
    <<228, 96, 230, 97, 195>>,                \* IN; OUT; RET
    <<144, 144, 144, 144, 195>>,              \* NOP x 4; RET
    <<235, 1, 144, 236, 195>>,                \* JMP +1; NOP; IN AL, DX; RET
    <<102, 102, 102, 102, 102>>               \* operand-size prefixes only
}

TbImages ==
    {Put(Put(BaseImage, m[1], m[2]), 280, code) :
        m \in TbMutations, code \in TbCodes}

InitTb ==
    /\ \E d \in TbImages, target \in Targets, oom \in TbOoms,
          nullName \in NullNameOutcomes :
          tb = TbStart("start", d, 0, target, oom, nullName)
    /\ pad = 0
    /\ PeIdle
    /\ DecIdle
    /\ SemIdle
    /\ GenIdle
    /\ WalkIdle
    /\ FdIdle

\* stage 1: pe_load and the two returns behind it
TbLoad ==
    /\ tb.pc = "start"
    /\ tb' = TbLoaded(tb, pe_load(tb.data, tb.pad, FALSE, "none"))
    /\ UNCHANGED notTb

\* stage 2: x86_decode_range, the return for nothing decoded and the
\* disassembly target
TbDecode ==
    /\ tb.pc = "loaded"
    /\ tb' = TbDecoded(tb,
                 x86_decode_range(TextOf(tb), tb.pad,
                     TbAddress(tb, tb.pe.text_rva), 0,
                     IF tb.oom = "range" THEN "malloc" ELSE "none"))
    /\ UNCHANGED notTb

\* stage 3: the conversion, the lift and the UIR target
TbLift ==
    /\ tb.pc = "decoded"
    /\ tb' = TbConverted(tb, tb.oom # "convert")
    /\ UNCHANGED notTb

\* stage 4: the imports are classified when there are any, the function is
\* analyzed
TbAnalyze ==
    /\ tb.pc = "lifted"
    /\ tb' = TbAnalyzed(tb,
                 IF tb.pe.import_count > 0
                 THEN sem_classify_imports(tb.pe.imports, tb.nullName)
                 ELSE [imports |-> <<>>, used |-> FALSE, fault |-> FALSE])
    /\ UNCHANGED notTb

\* stage 5: the Forth target and the unsupported targets
TbGenerate ==
    /\ tb.pc = "analyzed"
    /\ tb' = TbGenerated(tb)
    /\ UNCHANGED notTb

NextTb == TbLoad \/ TbDecode \/ TbLift \/ TbAnalyze \/ TbGenerate

SpecTb == InitTb /\ [][NextTb]_vars

\* C29: on every return path of translate_buffer every structure acquired
\* earlier in the call (the contents of the PE context, the decoded
\* instructions, the lifter input, the UIR function, the semantic result) has
\* been released exactly once before the function returns.
C29_EverythingReleasedOnReturn ==
    /\ \A r \in Resources : tb.released[r] <= tb.acquired[r]
    /\ tb.pc = "returned" =>
          \A r \in Resources : tb.released[r] = tb.acquired[r]

\* the classified imports are the imports of the image, one for one
OneForEachImport(pe_imports, sem_imports) ==
    /\ Len(sem_imports) = Len(pe_imports)
    /\ \A i \in 1..Len(pe_imports) :
          /\ sem_imports[i].dll_name = pe_imports[i].dll_name
          /\ sem_imports[i].iat_rva = pe_imports[i].iat_rva
          /\ pe_imports[i].func_name_null =>
                 sem_imports[i].category = "UNKNOWN"

\* C30: for every image pe_load accepts, imports without a function name
\* among them, the import classification of the pipeline completes without
\* using a missing name, yields one classified import for each import of the
\* image in the same order, and gives every nameless import the category
\* unknown.
C30_NamelessImportsAreUnknown ==
    /\ tb.pc # "killed"
    /\ ~tb.null_name_used
    /\ tb.pc = "analyzed" => OneForEachImport(tb.pe.imports, tb.sem_imports)

====
